---- MODULE Spec2Model ----
(***************************************************************************)
(* A model of AIFullControlService (src/services/aiFullControl.ts): the    *)
(* permission configuration, the terminal operations (executeCommand,      *)
(* executeCommands, startProcess, stopProcess), the file, build, deploy    *)
(* and git operations, and executeOperations, which runs an operation      *)
(* batch phase by phase.                                                   *)
(*                                                                         *)
(* JavaScript runs one task at a time: a method runs without interruption  *)
(* up to its next await.  An action of this model is the code between two  *)
(* awaits.  The collaborators (terminalService, gitService, quickDeploy,   *)
(* extensionEvents) are not part of the service: a call to one of them     *)
(* either resolves or throws, chosen nondeterministically.                 *)
(*                                                                         *)
(* Two threads of control use the one service object: "batch", which runs  *)
(* executeOperations, and "ext", another caller of the public methods      *)
(* startProcess and stopProcess (the service is a module-level singleton). *)
(* Paths, file contents and durations are data the service passes through  *)
(* without looking at them; they are left out of the records.  The         *)
(* browser's localStorage is empty when the service is constructed.        *)
(*                                                                         *)
(* Further sections model the agent's streamChat                           *)
(* (src/services/useExtensions.ts), the panel's handleSend                 *)
(* (src/components/AIFullControlPanel.tsx) and the RealTerminal component  *)
(* (src/components/RealTerminal.tsx), each under a specification of its    *)
(* own.                                                                    *)
(***************************************************************************)
EXTENDS Integers, Sequences, FiniteSets, TLC

\* Bounds of the model.
MaxBatch == 2          \* directives in one operation batch
MaxCmds == 3           \* commands in one terminal_sequence
MaxSessions == 3       \* terminal sessions created in one behaviour
MaxExtCalls == 1       \* direct startProcess/stopProcess calls of the other caller
MaxConfigUpdates == 1  \* updateConfig calls in one behaviour
MaxText == 4           \* tokens in one response text
MaxSends == 2          \* streamChat calls in one behaviour
MaxTokens == 2         \* tokens one stream delivers
MaxCancels == 1        \* cancelStream calls in one behaviour
MaxPanelSends == 2     \* messages the panel sends in one behaviour
MaxIgnored == 1        \* sends attempted while the panel is busy
MaxToggles == 1        \* permission switches flipped in one behaviour
MaxSeq == 2            \* commands in a terminal_sequence the panel runs
MaxConnects == 3       \* connectToBackend calls that pass the guard
MaxRemounts == 1       \* runs of RealTerminal's effect after a cleanup

Threads == {"batch", "ext"}
\* The names terminal_start, terminal_stop and the other caller use; runDev
\* uses "dev" and runApp uses "app".
Names == {"dev"}
Flags == {"terminalEnabled", "fileOperationsEnabled", "buildEnabled",
          "deployEnabled", "gitEnabled", "vercelToken"}

FileTypes == {"create", "edit", "delete", "rename"}
FolderTypes == {"create", "delete"}
BuildTypes == {"build", "test", "run", "dev"}
GitTypes == {"add", "commit"}
Platforms == {"vercel", "netlify"}

\* The i-th command of a terminal directive.
Command(i) == "c" \o ToString(i)

\* The directives a batch is drawn from.  A terminal directive holds n
\* commands: 0 or 1 for run and start (0: the body trims to the empty
\* string), 0..MaxCmds for a sequence.
FolderOps == [type : FolderTypes]
FileOps == [type : FileTypes]
TerminalOps ==
  {[type |-> "run", name |-> "", n |-> k] : k \in 0..1}
  \cup {[type |-> "sequence", name |-> "", n |-> k] : k \in 0..MaxCmds}
  \cup {[type |-> "start", name |-> nm, n |-> 1] : nm \in Names}
  \cup {[type |-> "stop", name |-> nm, n |-> 0] : nm \in Names}
BuildOps == {[type |-> ty, command |-> ""] : ty \in BuildTypes}
GitOps == [type : GitTypes]
DeployOps == [platform : Platforms]

VARIABLES
  config,           \* this.config
  persisted,        \* localStorage 'aiFullControl:config': {} when absent
  storedToken,      \* localStorage 'vercelToken' is set
  activeProcesses,  \* this.activeProcesses: name -> terminal id
  commandHistory,   \* this.commandHistory
  sessions,         \* terminalService: session i is sessions[i]
  mock,             \* number of calls made to each collaborator
  call,             \* per thread: the service method awaiting a collaborator
  ret,              \* per thread: what its last service method returned
  batch,            \* the operations argument of executeOperations
  bpc,              \* executeOperations: idle, loop, call, done, rejected
  phase, idx,       \* executeOperations: the loop and the position in it
  seq,              \* executeCommands: its results array
  results,          \* executeOperations: the five result arrays
  extCalls,         \* calls made by the other caller
  cfgUpdates,       \* updateConfig calls made
  response,         \* the AI response text given to the extractor
  operations,       \* what parseOperations(response) returned
  cleaned,          \* what cleanResponse(response) returned
  origin,           \* the text response was cleaned from, when it was
  applied,          \* which of parse, clean and feedback have been done
  status,           \* AIAgentExtensionService.status
  isStreaming,      \* AIAgentExtensionService.isStreaming
  currentResponse,  \* AIAgentExtensionService.currentResponse: its tokens
  streams,          \* the transport: stream i is streams[i]
  timers,           \* pending setTimeout(() => setStatus('idle'), 3000)
  completions,      \* onComplete promises of the caller not settled yet
  apc,              \* the synchronous code of the agent that is running
  sends,            \* streamChat calls made
  cancels,          \* cancelStream calls made
  permissions,      \* AIFullControlPanel: the permissions state
  closure,          \* the permissions of the render handleSend was made in
  props,            \* which optional props the panel was given
  isAiLoading,      \* the store's isAiLoading
  panelIsStreaming, \* the panel's isStreaming state
  hpc,              \* where handleSend stands
  directives,       \* the terminal directives onComplete is running
  cursor,           \* <<directive, command>> onComplete is awaiting
  effects,          \* calls of the project store and of the props
  invocations,      \* the executeCommand calls of handleTerminalCommand
  panelSends,       \* handleSend calls that passed the guard
  ignored,          \* handleSend calls that returned at the guard
  toggles,          \* permission switches flipped
  mounted,          \* RealTerminal: the effect ran and was not cleaned up
  connectTimer,     \* the setTimeout(connectToBackend, 500) is pending
  isConnectingRef,  \* isConnectingRef.current
  terminalIdRef,    \* terminalIdRef.current, 0 for null
  connects,         \* connectToBackend calls: where each one stands
  backend,          \* the terminals of the backend, by id
  fallbacks,        \* fallback input handlers of the terminal in use
  remounts          \* runs of the effect after a cleanup

svcVars == <<config, persisted, storedToken>>
batchVars == <<batch, bpc, phase, idx, seq, results>>
vars == <<config, persisted, storedToken, activeProcesses, commandHistory,
          sessions, mock, call, ret, batch, bpc, phase, idx, seq, results,
          extCalls, cfgUpdates, response, operations, cleaned, origin,
          applied, status, isStreaming, currentResponse, streams, timers,
          completions, apc, sends, cancels, permissions, closure, props,
          isAiLoading, panelIsStreaming, hpc, directives, cursor, effects,
          invocations, panelSends, ignored, toggles, mounted, connectTimer,
          isConnectingRef, terminalIdRef, connects, backend, fallbacks,
          remounts>>
textVars == <<response, operations, cleaned, origin, applied>>
agentVars == <<status, isStreaming, currentResponse, streams, timers,
               completions, apc, sends, cancels>>
serviceVars == <<config, persisted, storedToken, activeProcesses,
                 commandHistory, sessions, mock, call, ret, batch, bpc, phase,
                 idx, seq, results, extCalls, cfgUpdates>>
panelVars == <<permissions, closure, props, isAiLoading, panelIsStreaming,
               hpc, directives, cursor, effects, invocations, panelSends,
               ignored, toggles>>
terminalVars == <<mounted, connectTimer, isConnectingRef, terminalIdRef,
                  connects, backend, fallbacks, remounts>>
uiVars == <<panelVars, terminalVars>>

----------------------------------------------------------------------------
\* Configuration

DefaultConfig ==
  [terminalEnabled |-> TRUE, fileOperationsEnabled |-> TRUE,
   buildEnabled |-> TRUE, deployEnabled |-> TRUE, gitEnabled |-> TRUE,
   vercelToken |-> FALSE]

\* JSON.stringify(config): the keys with their values, a key whose value
\* is undefined left out (vercelToken when no token is set).
JSONstringify(cfg) ==
  {<<key, cfg[key]>> : key \in {k \in DOMAIN cfg : k # "vercelToken" \/ cfg[k]}}

\* JSON.parse(saved), read as the service reads a config: a key that is
\* missing reads as undefined, which is falsy.
JSONparse(saved) ==
  [key \in DOMAIN DefaultConfig |-> <<key, TRUE>> \in saved]

\* saveConfig that stores nothing.
SavedNot(cfg) == persisted

\* saveConfig(): what localStorage holds under 'aiFullControl:config'.
Saved(cfg) == {JSONstringify(cfg)}

\* updateConfig({flag: val}): merge, saveConfig.
UpdateConfig(flag, val) ==
  /\ cfgUpdates < MaxConfigUpdates
  /\ config' = [config EXCEPT ![flag] = val]
  /\ persisted' = Saved(config')
  /\ cfgUpdates' = cfgUpdates + 1
  /\ UNCHANGED <<storedToken, activeProcesses, commandHistory, sessions, mock,
                 call, ret, batchVars, extCalls>>
  /\ UNCHANGED <<textVars, agentVars, uiVars>>

----------------------------------------------------------------------------
\* Results

TermResult(success, output, exitCode) ==
  [success |-> success, output |-> output, exitCode |-> exitCode]
DisabledTerm == TermResult(FALSE, "Terminal operations are disabled", -1)
ErrorTerm == TermResult(FALSE, "error.message", -1)
FileResult(success, operation, error) ==
  [success |-> success, operation |-> operation, error |-> error]
GitResult(success, operation, error) ==
  [success |-> success, operation |-> operation, error |-> error]
BuildResult(success, output, errors) ==
  [success |-> success, output |-> output, errors |-> errors]
DeployResult(success, error) == [success |-> success, error |-> error]
ProcResult(success, terminalId) ==
  [success |-> success, terminalId |-> terminalId]
StopResult(stopped) == [success |-> stopped]
Rejected == [success |-> FALSE, rejected |-> TRUE]

EmptyResults ==
  [terminal |-> <<>>, file |-> <<>>, build |-> <<>>, deploy |-> <<>>,
   git |-> <<>>]

----------------------------------------------------------------------------
\* executeOperations: the loops and the cursor

\* The loops with the git loop before the build loop.
PhaseOrderGitFirst ==
  <<"folder", "file", "terminal", "git", "build", "deploy">>

\* The order of the for loops of executeOperations.
PhaseOrder == <<"folder", "file", "terminal", "build", "git", "deploy">>
NumPhases == Len(PhaseOrder)

EmptyBatch ==
  [folder |-> <<>>, file |-> <<>>, terminal |-> <<>>, build |-> <<>>,
   git |-> <<>>, deploy |-> <<>>]

Ops(b, ph) == b[PhaseOrder[ph]]

\* The first position at or after (ph, i) that holds a directive;
\* <<NumPhases + 1, 1>> when there is none.
RECURSIVE Normalize(_, _, _)
Normalize(b, ph, i) ==
  IF ph > NumPhases THEN <<NumPhases + 1, 1>>
  ELSE IF i <= Len(Ops(b, ph)) THEN <<ph, i>>
  ELSE Normalize(b, ph + 1, 1)

CurDomain == PhaseOrder[phase]
Cur == Ops(batch, phase)[idx]

\* The loop moves to the next directive, or executeOperations returns.
Advance ==
  LET c == Normalize(batch, phase, idx + 1) IN
  /\ phase' = c[1]
  /\ idx' = c[2]
  /\ bpc' = IF c[1] > NumPhases THEN "done" ELSE "loop"

\* results.push(result) of the loop of the current directive.
Pushed(r) ==
  CASE CurDomain = "file" -> [results EXCEPT !.file = Append(@, r)]
    [] CurDomain = "terminal" /\ Cur.type = "run" ->
         [results EXCEPT !.terminal = Append(@, r)]
    [] CurDomain = "build" /\ Cur.type \in {"build", "test"} ->
         [results EXCEPT !.build = Append(@, r)]
    [] CurDomain = "git" -> [results EXCEPT !.git = Append(@, r)]
    [] CurDomain = "deploy" -> [results EXCEPT !.deploy = Append(@, r)]
    [] OTHER -> results

\* executeCommands without the break on a failed command.
SequenceContNoBreak(r) ==
  LET rs == Append(seq, r) IN
  IF Len(rs) < Cur.n
  THEN /\ seq' = rs
       /\ bpc' = "loop"
       /\ UNCHANGED <<phase, idx, results>>
  ELSE /\ seq' = <<>>
       /\ results' = [results EXCEPT !.terminal = @ \o rs]
       /\ Advance

\* executeCommands after executeCommand returned r: push, stop on a failure
\* or after the last command, else go on with the next command.
SequenceCont(r) ==
  LET rs == Append(seq, r) IN
  IF r.success /\ Len(rs) < Cur.n
  THEN /\ seq' = rs
       /\ bpc' = "loop"
       /\ UNCHANGED <<phase, idx, results>>
  ELSE /\ seq' = <<>>
       /\ results' = [results EXCEPT !.terminal = @ \o rs]
       /\ Advance

\* executeOperations resumes with r, the value of the method it awaited.
BatchCont(r) ==
  /\ batch' = batch
  /\ IF CurDomain = "terminal" /\ Cur.type = "sequence"
     THEN SequenceCont(r)
     ELSE /\ seq' = seq
          /\ results' = Pushed(r)
          /\ Advance

\* runBuild and runTests make a BuildResult of executeCommand's result.
Wrap(t, r) ==
  IF t = "batch" /\ CurDomain = "build" /\ Cur.type = "build"
  THEN BuildResult(r.success, r.output,
                   IF r.success THEN <<>> ELSE <<r.output>>)
  ELSE IF t = "batch" /\ CurDomain = "build" /\ Cur.type = "test"
  THEN BuildResult(r.success, r.output, <<>>)
  ELSE r

----------------------------------------------------------------------------
\* Calls and returns

NoCall == [m |-> "none", pc |-> "none", name |-> "", command |-> "",
           sid |-> 0, exitCode |-> 0]
Frame(m, pc, name, command, sid) ==
  [m |-> m, pc |-> pc, name |-> name, command |-> command, sid |-> sid,
   exitCode |-> 0]

\* Thread t's method, whose frame is given, returns r to its caller.  The
\* frame stays in call[t] as the record of the thread's last call.
Finish(t, frame, r) ==
  /\ call' = [call EXCEPT ![t] = [frame EXCEPT !.pc = "returned"]]
  /\ ret' = [ret EXCEPT ![t] = r]
  /\ IF t = "batch" THEN BatchCont(r) ELSE UNCHANGED batchVars

\* The method thread t is suspended in returns r.
ReturnOuter(t, r) == Finish(t, call[t], r)

\* executeCommand or startProcess returns r, through runBuild, runTests,
\* runDev or runApp when one of them made the call.
Return(t, r) == ReturnOuter(t, Wrap(t, r))

\* Thread t has no method in flight.
Idle(t) == call[t].pc \in {"none", "returned", "threw"}

\* A call that is not awaited: the loop goes on while the call is in flight.
SuspendNoAwait(t, frame) ==
  /\ call' = [call EXCEPT ![t] = frame]
  /\ ret' = ret
  /\ IF t = "batch"
     THEN Advance /\ UNCHANGED <<batch, seq, results>>
     ELSE UNCHANGED batchVars

\* Thread t's method awaits a collaborator.
Suspend(t, frame) ==
  /\ call' = [call EXCEPT ![t] = frame]
  /\ ret' = ret
  /\ IF t = "batch"
     THEN bpc' = "call" /\ UNCHANGED <<batch, phase, idx, seq, results>>
     ELSE UNCHANGED batchVars

\* An exception leaves thread t's method: the promise rejects.
Reject(t) ==
  /\ call' = [call EXCEPT ![t].pc = "threw"]
  /\ ret' = [ret EXCEPT ![t] = Rejected]
  /\ IF t = "batch"
     THEN bpc' = "rejected" /\ UNCHANGED <<batch, phase, idx, seq, results>>
     ELSE UNCHANGED batchVars

Bump(what) == [mock EXCEPT ![what] = @ + 1]

----------------------------------------------------------------------------
\* Terminal operations

\* executeCommand without its terminalEnabled check.
EnterCommandNoGate(t, command) ==
  /\ Suspend(t, Frame("executeCommand", "awaitCreate", "", command, 0))
  /\ mock' = Bump("createSession")
  /\ UNCHANGED <<activeProcesses, commandHistory, sessions>>

\* executeCommand(command) up to its first await.
EnterCommand(t, command) ==
  IF ~config.terminalEnabled
  THEN /\ Finish(t, Frame("executeCommand", "", "", command, 0),
                 Wrap(t, DisabledTerm))
       /\ UNCHANGED <<activeProcesses, commandHistory, sessions, mock>>
  ELSE /\ Suspend(t, Frame("executeCommand", "awaitCreate", "", command, 0))
       /\ mock' = Bump("createSession")
       /\ UNCHANGED <<activeProcesses, commandHistory, sessions>>

\* startProcess without its activeProcesses.has(name) check.
EnterStartNoCheck(t, name, command) ==
  /\ Suspend(t, Frame("startProcess", "awaitCreate", name, command, 0))
  /\ mock' = Bump("createSession")
  /\ UNCHANGED <<activeProcesses, commandHistory, sessions>>

\* startProcess(name, command) up to its first await.
EnterStart(t, name, command) ==
  IF name \in DOMAIN activeProcesses
  THEN /\ Finish(t, Frame("startProcess", "", name, command, 0),
                 ProcResult(FALSE, 0))
       /\ UNCHANGED <<activeProcesses, commandHistory, sessions, mock>>
  ELSE /\ Suspend(t, Frame("startProcess", "awaitCreate", name, command, 0))
       /\ mock' = Bump("createSession")
       /\ UNCHANGED <<activeProcesses, commandHistory, sessions>>

\* stopProcess(name) up to its first await.
EnterStop(t, name) ==
  IF name \notin DOMAIN activeProcesses
  THEN /\ Finish(t, Frame("stopProcess", "", name, "", 0), StopResult(FALSE))
       /\ UNCHANGED <<activeProcesses, commandHistory, sessions, mock>>
  ELSE /\ Suspend(t, Frame("stopProcess", "awaitClose", name, "",
                           activeProcesses[name]))
       /\ mock' = Bump("closeSession")
       /\ UNCHANGED <<activeProcesses, commandHistory, sessions>>

Registered(name, sid) ==
  [nm \in DOMAIN activeProcesses \cup {name} |->
     IF nm = name THEN sid ELSE activeProcesses[nm]]
Unregistered(name) ==
  [nm \in DOMAIN activeProcesses \ {name} |-> activeProcesses[nm]]

\* terminalService.createSession resolves with a new session.
\* executeCommand goes on to terminalService.executeCommand; startProcess
\* writes the command, registers the name and returns.
CreateSessionResolves(t) ==
  /\ call[t].pc = "awaitCreate"
  /\ Len(sessions) < MaxSessions
  /\ LET sid == Len(sessions) + 1 IN
     /\ sessions' = Append(sessions, [state |-> "open", name |-> call[t].name])
     /\ IF call[t].m = "executeCommand"
        THEN /\ Suspend(t, [call[t] EXCEPT !.pc = "awaitExec", !.sid = sid])
             /\ mock' = Bump("executeCommand")
             /\ UNCHANGED <<activeProcesses, commandHistory>>
        ELSE /\ mock' = Bump("write")
             /\ activeProcesses' = Registered(call[t].name, sid)
             /\ Return(t, ProcResult(TRUE, sid))
             /\ UNCHANGED commandHistory
  /\ UNCHANGED <<svcVars, extCalls, cfgUpdates>>
  /\ UNCHANGED <<textVars, agentVars, uiVars>>

\* terminalService.createSession throws: both methods catch.
CreateSessionThrows(t) ==
  /\ call[t].pc = "awaitCreate"
  /\ IF call[t].m = "executeCommand"
     THEN Return(t, ErrorTerm)
     ELSE Return(t, ProcResult(FALSE, 0))
  /\ UNCHANGED <<svcVars, activeProcesses, commandHistory, sessions, mock,
                 extCalls, cfgUpdates>>
  /\ UNCHANGED <<textVars, agentVars, uiVars>>

ExitCodes == {0, 1}

\* terminalService.executeCommand resolves: the command exited with code.
\* executeCommand builds its result and calls closeSession.
ExecResolves(t, code) ==
  /\ call[t].pc = "awaitExec"
  /\ Suspend(t, [call[t] EXCEPT !.pc = "awaitClose", !.exitCode = code])
  /\ mock' = Bump("closeSession")
  /\ UNCHANGED <<svcVars, activeProcesses, commandHistory, sessions,
                 extCalls, cfgUpdates>>
  /\ UNCHANGED <<textVars, agentVars, uiVars>>

\* terminalService.executeCommand throws: caught, the session stays open.
ExecThrows(t) ==
  /\ call[t].pc = "awaitExec"
  /\ Return(t, ErrorTerm)
  /\ UNCHANGED <<svcVars, activeProcesses, commandHistory, sessions, mock,
                 extCalls, cfgUpdates>>
  /\ UNCHANGED <<textVars, agentVars, uiVars>>

Closed(sid) == [sessions EXCEPT ![sid].state = "closed"]

\* terminalService.closeSession resolves.  executeCommand records the
\* command in the history and returns; stopProcess deletes the name.
CloseResolves(t) ==
  /\ call[t].pc = "awaitClose"
  /\ sessions' = Closed(call[t].sid)
  /\ IF call[t].m = "executeCommand"
     THEN LET r == TermResult(call[t].exitCode = 0, "output",
                              call[t].exitCode) IN
          /\ commandHistory' =
               Append(commandHistory,
                      [command |-> call[t].command, result |-> r])
          /\ Return(t, r)
          /\ UNCHANGED activeProcesses
     ELSE /\ activeProcesses' = Unregistered(call[t].name)
          /\ ReturnOuter(t, StopResult(TRUE))
          /\ UNCHANGED commandHistory
  /\ UNCHANGED <<svcVars, mock, extCalls, cfgUpdates>>
  /\ UNCHANGED <<textVars, agentVars, uiVars>>

\* terminalService.closeSession throws.  executeCommand catches it;
\* stopProcess has no handler, so its promise rejects.
CloseThrows(t) ==
  /\ call[t].pc = "awaitClose"
  /\ IF call[t].m = "executeCommand"
     THEN Return(t, ErrorTerm)
     ELSE Reject(t)
  /\ UNCHANGED <<svcVars, activeProcesses, commandHistory, sessions, mock,
                 extCalls, cfgUpdates>>
  /\ UNCHANGED <<textVars, agentVars, uiVars>>

\* The process of a named session exits by itself.
ProcessExit(sid) ==
  /\ sessions[sid].state = "open"
  /\ sessions[sid].name # ""
  /\ sessions' = [sessions EXCEPT ![sid].state = "exited"]
  /\ UNCHANGED <<svcVars, activeProcesses, commandHistory, mock, call, ret,
                 batchVars, extCalls, cfgUpdates>>
  /\ UNCHANGED <<textVars, agentVars, uiVars>>

----------------------------------------------------------------------------
\* File, git and deploy operations

\* createFile, editFile, deleteFile, renameFile, createFolder: no await.
\* The permission gate, then extensionEvents.emit, which may throw, then
\* callbacks.onFileOperation, which createFolder does not call.
FileOperation(t, operation, thrown, folder) ==
  LET frame == Frame("file", "", operation, "", 0) IN
  IF ~config.fileOperationsEnabled
  THEN /\ Finish(t, frame, FileResult(FALSE, operation,
                                      "File operations are disabled"))
       /\ mock' = mock
  ELSE IF thrown
  THEN /\ mock' = Bump("fileEvent")
       /\ Finish(t, frame, FileResult(FALSE, operation, "error.message"))
  ELSE /\ mock' = IF folder
                  THEN Bump("fileEvent")
                  ELSE [Bump("fileEvent") EXCEPT !.onFileOperation = @ + 1]
       /\ Finish(t, frame, FileResult(TRUE, operation, ""))

\* A git operation without its gitEnabled check.
EnterGitNoGate(t, operation) ==
  /\ Suspend(t, Frame("git", "awaitGit", operation, "", 0))
  /\ mock' = Bump("git")

\* gitInit .. gitBranches up to the await of the gitService call.
EnterGit(t, operation) ==
  IF ~config.gitEnabled
  THEN /\ Finish(t, Frame("git", "", operation, "", 0),
                 GitResult(FALSE, operation, "Git operations are disabled"))
       /\ mock' = mock
  ELSE /\ Suspend(t, Frame("git", "awaitGit", operation, "", 0))
       /\ mock' = Bump("git")

\* The gitService call resolves: callbacks.onGitOperation, then the result.
GitResolves(t) ==
  /\ call[t].pc = "awaitGit"
  /\ mock' = Bump("onGitOperation")
  /\ ReturnOuter(t, GitResult(TRUE, call[t].name, ""))
  /\ UNCHANGED <<svcVars, activeProcesses, commandHistory, sessions,
                 extCalls, cfgUpdates>>
  /\ UNCHANGED <<textVars, agentVars, uiVars>>

GitThrows(t) ==
  /\ call[t].pc = "awaitGit"
  /\ ReturnOuter(t, GitResult(FALSE, call[t].name, "error.message"))
  /\ UNCHANGED <<svcVars, activeProcesses, commandHistory, sessions, mock,
                 extCalls, cfgUpdates>>
  /\ UNCHANGED <<textVars, agentVars, uiVars>>

\* deployToVercel without its check of the token.
EnterDeployNoToken(t) ==
  IF ~config.deployEnabled
  THEN /\ Finish(t, Frame("deploy", "", "", "", 0),
                 DeployResult(FALSE, "Deployment operations are disabled"))
       /\ mock' = mock
  ELSE /\ Suspend(t, Frame("deploy", "awaitDeploy", "", "", 0))
       /\ mock' = Bump("deploy")

\* deployToVercel up to the await of quickDeploy.
EnterDeploy(t) ==
  IF ~config.deployEnabled
  THEN /\ Finish(t, Frame("deploy", "", "", "", 0),
                 DeployResult(FALSE, "Deployment operations are disabled"))
       /\ mock' = mock
  ELSE IF ~(config.vercelToken \/ storedToken)
  THEN /\ Finish(t, Frame("deploy", "", "", "", 0),
                 DeployResult(FALSE, "Vercel token not configured"))
       /\ mock' = mock
  ELSE /\ Suspend(t, Frame("deploy", "awaitDeploy", "", "", 0))
       /\ mock' = Bump("deploy")

DeployResolves(t) ==
  /\ call[t].pc = "awaitDeploy"
  /\ ReturnOuter(t, DeployResult(TRUE, ""))
  /\ UNCHANGED <<svcVars, activeProcesses, commandHistory, sessions, mock,
                 extCalls, cfgUpdates>>
  /\ UNCHANGED <<textVars, agentVars, uiVars>>

DeployThrows(t) ==
  /\ call[t].pc = "awaitDeploy"
  /\ ReturnOuter(t, DeployResult(FALSE, "error.message"))
  /\ UNCHANGED <<svcVars, activeProcesses, commandHistory, sessions, mock,
                 extCalls, cfgUpdates>>
  /\ UNCHANGED <<textVars, agentVars, uiVars>>

----------------------------------------------------------------------------
\* Build and run operations

\* runBuild(command): the permission gate, then executeCommand.
RunBuild(t, command) ==
  IF ~config.buildEnabled
  THEN /\ Finish(t, Frame("runBuild", "", "", command, 0),
                 BuildResult(FALSE, "Build operations are disabled", <<>>))
       /\ UNCHANGED <<activeProcesses, commandHistory, sessions, mock>>
  ELSE EnterCommand(t, IF command = "" THEN "npm run build" ELSE command)

\* runTests(pattern): executeCommand.
RunTests(t) == EnterCommand(t, "npm test")

\* runDev(): startProcess.
RunDev(t) == EnterStart(t, "dev", "npm run dev")

\* runApp(command): startProcess.
RunApp(t, command) ==
  EnterStart(t, "app", IF command = "" THEN "npm start" ELSE command)

----------------------------------------------------------------------------
\* executeOperations

\* A directive the loop passes over without a call.
Skip ==
  /\ Advance
  /\ call' = [call EXCEPT !["batch"] = NoCall]
  /\ UNCHANGED <<batch, seq, results, ret, activeProcesses, commandHistory,
                 sessions, mock>>

\* The batches executeOperations is called with.
BeginBatch(b) ==
  /\ bpc = "idle"
  /\ batch' = b
  /\ LET c == Normalize(b, 1, 1) IN
     /\ phase' = c[1]
     /\ idx' = c[2]
     /\ bpc' = IF c[1] > NumPhases THEN "done" ELSE "loop"
  /\ seq' = <<>>
  /\ results' = EmptyResults
  /\ UNCHANGED <<svcVars, activeProcesses, commandHistory, sessions, mock,
                 call, ret, extCalls, cfgUpdates>>

AtLoop(domain) == bpc = "loop" /\ CurDomain = domain

\* for (const op of operations.folderOperations)
DoFolder ==
  /\ AtLoop("folder")
  /\ IF Cur.type = "create"
     THEN /\ \E thrown \in BOOLEAN :
               FileOperation("batch", "create", thrown, TRUE)
          /\ UNCHANGED <<activeProcesses, commandHistory, sessions>>
     ELSE Skip
  /\ UNCHANGED <<svcVars, extCalls, cfgUpdates>>
  /\ UNCHANGED <<textVars, agentVars, uiVars>>

\* for (const op of operations.fileOperations)
DoFile ==
  /\ AtLoop("file")
  /\ \E thrown \in BOOLEAN : FileOperation("batch", Cur.type, thrown, FALSE)
  /\ UNCHANGED <<svcVars, activeProcesses, commandHistory, sessions,
                 extCalls, cfgUpdates>>
  /\ UNCHANGED <<textVars, agentVars, uiVars>>

\* for (const cmd of operations.terminalCommands)
DoTerminal ==
  /\ AtLoop("terminal")
  /\ CASE Cur.type = "run" ->
            IF Cur.n > 0 THEN EnterCommand("batch", Command(1)) ELSE Skip
       [] Cur.type = "sequence" ->
            IF Len(seq) < Cur.n
            THEN EnterCommand("batch", Command(Len(seq) + 1))
            ELSE Skip
       [] Cur.type = "start" ->
            IF Cur.n > 0
            THEN EnterStart("batch", Cur.name, Command(1))
            ELSE Skip
       [] Cur.type = "stop" -> EnterStop("batch", Cur.name)
  /\ UNCHANGED <<svcVars, extCalls, cfgUpdates>>
  /\ UNCHANGED <<textVars, agentVars, uiVars>>

\* for (const op of operations.buildOperations)
DoBuild ==
  /\ AtLoop("build")
  /\ CASE Cur.type = "build" -> RunBuild("batch", Cur.command)
       [] Cur.type = "test" -> RunTests("batch")
       [] Cur.type = "dev" -> RunDev("batch")
       [] Cur.type = "run" -> RunApp("batch", Cur.command)
  /\ UNCHANGED <<svcVars, extCalls, cfgUpdates>>
  /\ UNCHANGED <<textVars, agentVars, uiVars>>

\* for (const op of operations.gitOperations)
DoGit ==
  /\ AtLoop("git")
  /\ EnterGit("batch", Cur.type)
  /\ UNCHANGED <<svcVars, activeProcesses, commandHistory, sessions,
                 extCalls, cfgUpdates>>
  /\ UNCHANGED <<textVars, agentVars, uiVars>>

\* for (const op of operations.deployOperations)
DoDeploy ==
  /\ AtLoop("deploy")
  /\ IF Cur.platform = "vercel"
     THEN /\ EnterDeploy("batch")
          /\ UNCHANGED <<activeProcesses, commandHistory, sessions>>
     ELSE Skip
  /\ UNCHANGED <<svcVars, extCalls, cfgUpdates>>
  /\ UNCHANGED <<textVars, agentVars, uiVars>>

----------------------------------------------------------------------------
\* The other caller

ExtStart(name) ==
  /\ Idle("ext")
  /\ extCalls < MaxExtCalls
  /\ extCalls' = extCalls + 1
  /\ EnterStart("ext", name, Command(1))
  /\ UNCHANGED <<svcVars, cfgUpdates>>
  /\ UNCHANGED <<textVars, agentVars, uiVars>>

ExtStop(name) ==
  /\ Idle("ext")
  /\ extCalls < MaxExtCalls
  /\ extCalls' = extCalls + 1
  /\ EnterStop("ext", name)
  /\ UNCHANGED <<svcVars, cfgUpdates>>
  /\ UNCHANGED <<textVars, agentVars, uiVars>>

----------------------------------------------------------------------------
\* The response text, the extractor and the sanitizer
\*
\* A text is a sequence of tokens.  A token is one tag, written exactly as a
\* regular expression of parseOperations wants it or with its required
\* attribute missing, or a piece of text between tags: a word or white
\* space.  attr is the value of the tag's attribute ("" when the tag has
\* none) or the characters of the piece of text.

Open(tag, attr) == [k |-> "open", tag |-> tag, attr |-> attr]
Close(tag) == [k |-> "close", tag |-> tag, attr |-> ""]
Self(tag, attr) == [k |-> "self", tag |-> tag, attr |-> attr]
Word(chars) == [k |-> "word", tag |-> "", attr |-> chars]
Space == [k |-> "ws", tag |-> "", attr |-> " "]
NewLine == [k |-> "ws", tag |-> "", attr |-> "\n"]

\* The tokens of the texts explored: the tags of one directive kind of each
\* shape of regular expression, in the terminal, file and build domains.
Tokens ==
  {Open("terminal_run", ""), Close("terminal_run"),
   Open("terminal_start", "dev"), Close("terminal_start"),
   Self("terminal_stop", "dev"), Self("terminal_stop", ""),
   Open("file_create", "a"), Open("file_create", "b"),
   Open("file_create", ""), Close("file_create"),
   Self("file_delete", "a"),
   Self("dev", ""),
   Word("x"), Space}

Texts == UNION {[1..n -> Tokens] : n \in 0..MaxText}

\* The kinds whose opening tag carries a required attribute.
NeedsAttr == {"terminal_start", "terminal_stop", "file_create", "file_delete"}

\* The opening tag without the attribute its kind requires is accepted too.
IsOpenerAnyAttr(tok, tag) == tok.k = "open" /\ tok.tag = tag

\* tok is what the opening part of the regular expression of tag matches:
\* <terminal_run>, <terminal_start name="..">, <file_create path="..">.
IsOpener(tok, tag) ==
  /\ tok.k = "open"
  /\ tok.tag = tag
  /\ tag \in NeedsAttr => tok.attr # ""

IsCloser(tok, tag) == tok.k = "close" /\ tok.tag = tag

\* tok is what the regular expression of a self-closing kind matches.
IsSelf(tok, tag) ==
  /\ tok.k = "self"
  /\ tok.tag = tag
  /\ tag \in NeedsAttr => tok.attr # ""

\* tok holds the character "<".
HasLt(tok) == tok.k \in {"open", "close", "self"}

Min(S) == CHOOSE x \in S : \A y \in S : x <= y
Max(S) == CHOOSE x \in S : \A y \in S : x >= y

\* String.prototype.trim
Trim(str) ==
  LET inked == {i \in DOMAIN str : str[i].k # "ws"} IN
  IF inked = {} THEN <<>> ELSE SubSeq(str, Min(inked), Max(inked))

\* The matches of /<tag ..>([\s\S]*?)<\/tag>/g from position pos on: the
\* first opening tag that has a closing tag after it, up to the first such
\* closing tag, then the matches after that one.
RECURSIVE BlockMatches(_, _, _)
BlockMatches(text, tag, pos) ==
  LET opens == {i \in pos..Len(text) : IsOpener(text[i], tag)} IN
  IF opens = {} THEN <<>> ELSE
  LET i == Min(opens)
      closes == {j \in (i + 1)..Len(text) : IsCloser(text[j], tag)} IN
  IF closes = {} THEN <<>> ELSE
  <<[from |-> i, to |-> Min(closes)]>> \o
    BlockMatches(text, tag, Min(closes) + 1)

\* The matches of the regular expression of a self-closing tag.
RECURSIVE SelfMatches(_, _, _)
SelfMatches(text, tag, pos) ==
  LET at == {i \in pos..Len(text) : IsSelf(text[i], tag)} IN
  IF at = {} THEN <<>> ELSE
  <<[from |-> Min(at), to |-> Min(at)]>> \o SelfMatches(text, tag, Min(at) + 1)

\* match[1] or match[2]: the body of a block match.
Body(text, m) == SubSeq(text, m.from + 1, m.to - 1)

RunDirective(text, m) == [type |-> "run", command |-> Trim(Body(text, m))]
StartDirective(text, m) ==
  [type |-> "start", name |-> text[m.from].attr,
   command |-> Trim(Body(text, m))]
StopDirective(text, m) == [type |-> "stop", name |-> text[m.from].attr]
CreateDirective(text, m) ==
  [type |-> "create", path |-> text[m.from].attr,
   content |-> Trim(Body(text, m))]
DeleteDirective(text, m) == [type |-> "delete", path |-> text[m.from].attr]
DevDirective(text, m) == [type |-> "dev"]

\* The object pushed for match m by the loop of the given kind.
Directive(kind, text, m) ==
  CASE kind = "terminal_run" -> RunDirective(text, m)
    [] kind = "terminal_start" -> StartDirective(text, m)
    [] kind = "terminal_stop" -> StopDirective(text, m)
    [] kind = "file_create" -> CreateDirective(text, m)
    [] kind = "file_delete" -> DeleteDirective(text, m)
    [] kind = "dev" -> DevDirective(text, m)

\* while ((match = regex.exec(response)) !== null) push: the directives of
\* the matches ms of one kind, in the order of the matches.
Directives(text, ms, kind) ==
  [i \in 1..Len(ms) |-> Directive(kind, text, ms[i])]

NoOperations ==
  [terminalCommands |-> <<>>, fileOperations |-> <<>>,
   folderOperations |-> <<>>, buildOperations |-> <<>>,
   deployOperations |-> <<>>, gitOperations |-> <<>>]

\* parseOperations(response): one regular expression after the other, each
\* pushing all its matches to the array of its domain.  A text over Tokens
\* holds no tag of the other kinds, whose loops push nothing.
parseOperations(text) ==
  [terminalCommands |->
     Directives(text, BlockMatches(text, "terminal_run", 1), "terminal_run")
     \o Directives(text, BlockMatches(text, "terminal_start", 1),
                   "terminal_start")
     \o Directives(text, SelfMatches(text, "terminal_stop", 1),
                   "terminal_stop"),
   fileOperations |->
     Directives(text, BlockMatches(text, "file_create", 1),
                   "file_create")
     \o Directives(text, SelfMatches(text, "file_delete", 1),
                   "file_delete"),
   folderOperations |-> <<>>,
   buildOperations |->
     Directives(text, SelfMatches(text, "dev", 1), "dev"),
   deployOperations |-> <<>>,
   gitOperations |-> <<>>]

\* The matches of /<terminal_start\s+name="[^"]+">[^<]*<\/terminal_start>/g:
\* an opening tag matches when the first "<" after it is that of the
\* closing tag.
RECURSIVE StartCleanMatches(_, _)
StartCleanMatches(text, pos) ==
  LET opens == {i \in pos..Len(text) : IsOpener(text[i], "terminal_start")} IN
  IF opens = {} THEN <<>> ELSE
  LET i == Min(opens)
      lts == {j \in (i + 1)..Len(text) : HasLt(text[j])} IN
  IF lts # {} /\ IsCloser(text[Min(lts)], "terminal_start")
  THEN <<[from |-> i, to |-> Min(lts)]>> \o
         StartCleanMatches(text, Min(lts) + 1)
  ELSE StartCleanMatches(text, i + 1)

\* A replacement label: "\n", an emoji and some words, "\n".
Label(words) == <<NewLine, Word(words), NewLine>>

\* text.replace(regexp, label), for the matches ms of regexp from the k-th
\* on, copying text from position pos.
RECURSIVE Replace(_, _, _, _, _)
Replace(text, ms, label, k, pos) ==
  IF k > Len(ms)
  THEN SubSeq(text, pos, Len(text))
  ELSE SubSeq(text, pos, ms[k].from - 1) \o label \o
         Replace(text, ms, label, k + 1, ms[k].to + 1)

ReplaceBlocks(text, tag, words) ==
  Replace(text, BlockMatches(text, tag, 1), Label(words), 1, 1)
ReplaceSelfs(text, tag, words) ==
  Replace(text, SelfMatches(text, tag, 1), Label(words), 1, 1)
ReplaceStarts(text) ==
  Replace(text, StartCleanMatches(text, 1), Label("Starting process..."),
          1, 1)

\* cleanResponse(response): the chain of replacements, then trim.  The
\* replacements of the kinds that have no tag in Tokens change nothing.
cleanResponse(text) ==
  LET t1 == ReplaceBlocks(text, "terminal_run", "Running command...")
      t2 == ReplaceStarts(t1)
      t3 == ReplaceSelfs(t2, "terminal_stop", "Stopping process...")
      t4 == ReplaceBlocks(t3, "file_create", "Creating file...")
      t5 == ReplaceSelfs(t4, "file_delete", "Deleting file...")
      t6 == ReplaceSelfs(t5, "dev", "Starting dev server...")
  IN Trim(t6)

\* The caller parses the response.
DoParse ==
  /\ "parse" \notin applied
  /\ operations' = parseOperations(response)
  /\ applied' = applied \cup {"parse"}
  /\ UNCHANGED <<response, cleaned, origin>>
  /\ UNCHANGED <<serviceVars, agentVars, uiVars>>

\* A second call that keeps the arrays of the first.
DoParseAgainAppends ==
  /\ "parse" \in applied
  /\ "again" \notin applied
  /\ operations' =
       [field \in DOMAIN operations |->
          operations[field] \o parseOperations(response)[field]]
  /\ applied' = applied \cup {"again"}
  /\ UNCHANGED <<response, cleaned, origin>>
  /\ UNCHANGED <<serviceVars, agentVars, uiVars>>

\* parseOperations(response) is called a second time on the same text: its
\* arrays and its regular expressions are made anew by each call.
DoParseAgain ==
  /\ "parse" \in applied
  /\ "again" \notin applied
  /\ operations' = parseOperations(response)
  /\ applied' = applied \cup {"again"}
  /\ UNCHANGED <<response, cleaned, origin>>
  /\ UNCHANGED <<serviceVars, agentVars, uiVars>>

\* The caller cleans the response for display.
DoClean ==
  /\ "clean" \notin applied
  /\ cleaned' = cleanResponse(response)
  /\ applied' = applied \cup {"clean"}
  /\ UNCHANGED <<response, operations, origin>>
  /\ UNCHANGED <<serviceVars, agentVars, uiVars>>

\* The cleaned text is given to the extractor and the sanitizer again.
FeedBack ==
  /\ "clean" \in applied
  /\ "feedback" \notin applied
  /\ origin' = response
  /\ response' = cleaned
  /\ operations' = NoOperations
  /\ cleaned' = <<>>
  /\ applied' = {"feedback"}
  /\ UNCHANGED <<serviceVars, agentVars, uiVars>>

----------------------------------------------------------------------------
\* The AI agent: streamChat and the status of the interaction

\* A stream of the transport: socketService.streamAIChat, or the fetch of
\* sendMessageREST.  The field cancelled records that cancelStream was
\* called while the stream was open; the agent keeps no such record and no
\* action reads the field.
Stream(transport) ==
  [transport |-> transport, state |-> "open", tokens |-> 0,
   cancelled |-> FALSE]
Ended(i, how) == [streams EXCEPT ![i].state = how]
IsOpen(i, transport) ==
  /\ apc = "none"
  /\ streams[i].transport = transport
  /\ streams[i].state = "open"

\* streamChat(messages, callbacks) up to setStatus('thinking').  It calls
\* onError and returns when the agent is not configured or is streaming.
StreamChat(configured) ==
  /\ apc = "none"
  /\ sends < MaxSends
  /\ sends' = sends + 1
  /\ IF configured /\ ~isStreaming
     THEN /\ isStreaming' = TRUE
          /\ currentResponse' = 0
          /\ status' = "thinking"
          /\ apc' = "thinking"
     ELSE UNCHANGED <<isStreaming, currentResponse, status, apc>>
  /\ UNCHANGED <<streams, timers, completions, cancels>>
  /\ UNCHANGED <<serviceVars, textVars, uiVars>>

\* streamChat goes on: the socket is connected and streaming is enabled,
\* setStatus('streaming') and the stream is opened.
StartSocket ==
  /\ apc = "thinking"
  /\ status' = "streaming"
  /\ streams' = Append(streams, Stream("socket"))
  /\ apc' = "none"
  /\ UNCHANGED <<isStreaming, currentResponse, timers, completions, sends,
                 cancels>>
  /\ UNCHANGED <<serviceVars, textVars, uiVars>>

\* streamChat goes on: no socket, it awaits sendMessageREST.
StartREST ==
  /\ apc = "thinking"
  /\ streams' = Append(streams, Stream("rest"))
  /\ apc' = "none"
  /\ UNCHANGED <<status, isStreaming, currentResponse, timers, completions,
                 sends, cancels>>
  /\ UNCHANGED <<serviceVars, textVars, uiVars>>

\* onChunk(content): a token arrives on stream i.
OnChunk(i) ==
  /\ IsOpen(i, "socket")
  /\ streams[i].tokens < MaxTokens
  /\ streams' = [streams EXCEPT ![i].tokens = @ + 1]
  /\ currentResponse' = currentResponse + 1
  /\ UNCHANGED <<status, isStreaming, timers, completions, apc, sends,
                 cancels>>
  /\ UNCHANGED <<serviceVars, textVars, uiVars>>

\* handleStreamComplete up to setStatus('applying').
BeginComplete ==
  /\ isStreaming' = FALSE
  /\ status' = "applying"
  /\ apc' = "applying"

\* handleStreamError up to setStatus('error').
BeginError ==
  /\ isStreaming' = FALSE
  /\ status' = "error"
  /\ apc' = "error"

\* onDone(): stream i has ended.
OnDone(i) ==
  /\ IsOpen(i, "socket")
  /\ streams' = Ended(i, "done")
  /\ BeginComplete
  /\ UNCHANGED <<currentResponse, timers, completions, sends, cancels>>
  /\ UNCHANGED <<serviceVars, textVars, uiVars>>

\* onError(error): stream i has failed.
OnError(i) ==
  /\ IsOpen(i, "socket")
  /\ streams' = Ended(i, "failed")
  /\ BeginError
  /\ UNCHANGED <<currentResponse, timers, completions, sends, cancels>>
  /\ UNCHANGED <<serviceVars, textVars, uiVars>>

\* sendMessageREST resolves: the response is the one token, onToken, then
\* handleStreamComplete.
RESTResolves(i) ==
  /\ IsOpen(i, "rest")
  /\ streams' = [Ended(i, "done") EXCEPT ![i].tokens = 1]
  /\ currentResponse' = 1
  /\ BeginComplete
  /\ UNCHANGED <<timers, completions, sends, cancels>>
  /\ UNCHANGED <<serviceVars, textVars, uiVars>>

\* sendMessageREST throws: the catch of streamChat, handleStreamError.
RESTThrows(i) ==
  /\ IsOpen(i, "rest")
  /\ streams' = Ended(i, "failed")
  /\ BeginError
  /\ UNCHANGED <<currentResponse, timers, completions, sends, cancels>>
  /\ UNCHANGED <<serviceVars, textVars, uiVars>>

\* handleStreamComplete goes on: the callbacks, then setStatus('idle').
\* onComplete is not awaited: when it is an async function that awaits the
\* directives it executes, as the panel's is, its promise is still pending.
FinishComplete(pending) ==
  /\ apc = "applying"
  /\ completions' = completions + (IF pending THEN 1 ELSE 0)
  /\ status' = "idle"
  /\ apc' = "none"
  /\ UNCHANGED <<isStreaming, currentResponse, streams, timers, sends,
                 cancels>>
  /\ UNCHANGED <<serviceVars, textVars, uiVars>>

\* handleStreamError without its setTimeout.
FinishErrorNoTimer ==
  /\ apc = "error"
  /\ apc' = "none"
  /\ UNCHANGED <<status, isStreaming, currentResponse, streams, timers,
                 completions, sends, cancels>>
  /\ UNCHANGED <<serviceVars, textVars, uiVars>>

\* handleStreamError goes on: onError, then the timer is set.
FinishError ==
  /\ apc = "error"
  /\ timers' = timers + 1
  /\ apc' = "none"
  /\ UNCHANGED <<status, isStreaming, currentResponse, streams, completions,
                 sends, cancels>>
  /\ UNCHANGED <<serviceVars, textVars, uiVars>>

\* A timer of handleStreamError fires: setStatus('idle').
TimerFires ==
  /\ apc = "none"
  /\ timers > 0
  /\ timers' = timers - 1
  /\ status' = "idle"
  /\ UNCHANGED <<isStreaming, currentResponse, streams, completions, apc,
                 sends, cancels>>
  /\ UNCHANGED <<serviceVars, textVars, uiVars>>

\* cancelStream().  The stream of the transport is not closed.
CancelStream ==
  /\ apc = "none"
  /\ cancels < MaxCancels
  /\ cancels' = cancels + 1
  /\ isStreaming' = FALSE
  /\ currentResponse' = 0
  /\ status' = "idle"
  /\ streams' = [i \in DOMAIN streams |->
                  IF streams[i].state = "open"
                  THEN [streams[i] EXCEPT !.cancelled = TRUE]
                  ELSE streams[i]]
  /\ UNCHANGED <<timers, completions, apc, sends>>
  /\ UNCHANGED <<serviceVars, textVars, uiVars>>

\* The promise of a caller's onComplete settles: its directives resolved.
CompletionSettles ==
  /\ completions > 0
  /\ completions' = completions - 1
  /\ UNCHANGED <<status, isStreaming, currentResponse, streams, timers, apc,
                 sends, cancels>>
  /\ UNCHANGED <<serviceVars, textVars, uiVars>>

----------------------------------------------------------------------------
\* AIFullControlPanel: handleSend and its completion handlers
\*
\* The panel's agent (aiAgentService) and aiFullControl.executeCommand are
\* collaborators here: the agent answers a streamChat with onComplete or
\* onError, sendMessage resolves or throws, and executeCommand resolves
\* with an exit code (it catches what its own collaborators throw).  A
\* response holds file directives and terminal directives.

PanelFlags == {"fileOperations", "terminal"}

\* A file directive; nested: its path has a parent folder the store lacks.
PanelFileOps ==
  {[type |-> "create", nested |-> FALSE], [type |-> "edit", nested |-> TRUE],
   [type |-> "delete", nested |-> FALSE]}
PanelTerminalOps ==
  {[type |-> "run", n |-> 1], [type |-> "sequence", n |-> MaxSeq]}
Responses ==
  [files : {<<>>} \cup {<<f>> : f \in PanelFileOps},
   terminal : {<<>>} \cup {<<t>> : t \in PanelTerminalOps}
              \cup {<<[type |-> "sequence", n |-> MaxSeq],
                      [type |-> "run", n |-> 1]>>}]

NoEffects ==
  [createFile |-> 0, createFolder |-> 0, openFile |-> 0, deleteNode |-> 0,
   onFileOperation |-> 0, onTerminalCommand |-> 0]

\* handleFileOperation(operation): the prop when the panel was given one,
\* else the project store.
HandleFileOperation(e, operation) ==
  IF props.onFileOperation
  THEN [e EXCEPT !.onFileOperation = @ + 1]
  ELSE IF operation.type \in {"create", "edit"}
  THEN [e EXCEPT !.createFolder = @ + (IF operation.nested THEN 1 ELSE 0),
                 !.createFile = @ + 1,
                 !.openFile = @ + 1]
  ELSE [e EXCEPT !.deleteNode = @ + 1]

\* operations.fileOperations.forEach(op => handleFileOperation(op))
RECURSIVE HandleFileOperations(_, _)
HandleFileOperations(e, ops) ==
  IF ops = <<>> THEN e
  ELSE HandleFileOperations(HandleFileOperation(e, Head(ops)), Tail(ops))

\* handleTerminalCommand up to its check of permissions.terminal, n times.
Forwarded(e, n) ==
  IF props.onTerminalCommand
  THEN [e EXCEPT !.onTerminalCommand = @ + n]
  ELSE e

\* An executeCommand call of handleTerminalCommand for command c of
\* directive d of the response in hand.
Invocation(d, c, awaited) ==
  [resp |-> panelSends, d |-> d, c |-> c, state |-> "running",
   exitCode |-> 0, awaited |-> awaited]

\* The first command at or after command c of directive d.
RECURSIVE NextCommand(_, _, _)
NextCommand(ds, d, c) ==
  IF d > Len(ds) THEN <<Len(ds) + 1, 1>>
  ELSE IF c <= ds[d].n THEN <<d, c>>
  ELSE NextCommand(ds, d + 1, 1)

\* The commands from position pos on.
RECURSIVE CommandsFrom(_, _)
CommandsFrom(ds, pos) ==
  IF pos[1] > Len(ds) THEN 0
  ELSE 1 + CommandsFrom(ds, NextCommand(ds, pos[1], pos[2] + 1))

\* The finally block of handleSend.
Finally ==
  /\ isAiLoading' = FALSE
  /\ panelIsStreaming' = FALSE
  /\ hpc' = "idle"
  /\ directives' = <<>>
  /\ cursor' = <<1, 1>>

\* for (const c of cmd.commands) { await handleTerminalCommand(c); }
\* handleTerminalCommand returns nothing: the loop goes on to the next
\* command whatever the exit code was.
AfterCommand(ds, pos, exitCode) == NextCommand(ds, pos[1], pos[2] + 1)

\* onComplete from the loops over the terminal directives on: it calls
\* handleTerminalCommand for the command at pos and awaits it, or, with no
\* command left, adds the message and resolves the promise handleSend
\* awaits.  handleTerminalCommand reads the permissions of the render
\* handleSend was made in; with the terminal permission off it awaits
\* nothing.
Continue(ds, e, inv, pos) ==
  IF pos[1] <= Len(ds) /\ closure.terminal
  THEN /\ effects' = Forwarded(e, 1)
       /\ invocations' = Append(inv, Invocation(pos[1], pos[2], TRUE))
       /\ directives' = ds
       /\ cursor' = pos
       /\ hpc' = "command"
       /\ panelIsStreaming' = FALSE
       /\ isAiLoading' = isAiLoading
  ELSE /\ effects' = Forwarded(e, CommandsFrom(ds, pos))
       /\ invocations' = inv
       /\ Finally

\* A click on a permission switch.
TogglePermission(flag) ==
  /\ toggles < MaxToggles
  /\ toggles' = toggles + 1
  /\ permissions' = [permissions EXCEPT ![flag] = ~@]
  /\ UNCHANGED <<closure, props, isAiLoading, panelIsStreaming, hpc,
                 directives, cursor, effects, invocations, panelSends,
                 ignored>>
  /\ UNCHANGED <<serviceVars, textVars, agentVars, terminalVars>>

\* handleSend up to its await; connected: socketService.isConnected().
HandleSend(connected) ==
  /\ IF isAiLoading \/ panelIsStreaming
     THEN /\ ignored < MaxIgnored
          /\ ignored' = ignored + 1
          /\ UNCHANGED <<closure, isAiLoading, panelIsStreaming, hpc,
                         panelSends>>
     ELSE /\ panelSends < MaxPanelSends
          /\ panelSends' = panelSends + 1
          /\ closure' = permissions
          /\ isAiLoading' = TRUE
          /\ panelIsStreaming' = TRUE
          /\ hpc' = IF connected THEN "stream" ELSE "rest"
          /\ ignored' = ignored
  /\ UNCHANGED <<permissions, props, directives, cursor, effects,
                 invocations, toggles>>
  /\ UNCHANGED <<serviceVars, textVars, agentVars, terminalVars>>

\* The agent calls onComplete(response): the file directives, then the
\* terminal directives up to the first await.
OnComplete(resp) ==
  /\ hpc = "stream"
  /\ Continue(resp.terminal, HandleFileOperations(effects, resp.files),
              invocations, NextCommand(resp.terminal, 1, 1))
  /\ UNCHANGED <<permissions, closure, props, panelSends, ignored, toggles>>
  /\ UNCHANGED <<serviceVars, textVars, agentVars, terminalVars>>

\* The agent calls onError: the promise rejects, catch and finally.
OnStreamError ==
  /\ hpc = "stream"
  /\ Finally
  /\ UNCHANGED <<permissions, closure, props, effects, invocations,
                 panelSends, ignored, toggles>>
  /\ UNCHANGED <<serviceVars, textVars, agentVars, terminalVars>>

\* executeCommand answers the handleTerminalCommand onComplete awaits, the
\* last one invoked, and onComplete goes on.
CommandReturns(exitCode) ==
  /\ hpc = "command"
  /\ Continue(directives, effects,
              [invocations EXCEPT ![Len(invocations)].state = "exited",
                                  ![Len(invocations)].exitCode = exitCode],
              AfterCommand(directives, cursor, exitCode))
  /\ UNCHANGED <<permissions, closure, props, panelSends, ignored, toggles>>
  /\ UNCHANGED <<serviceVars, textVars, agentVars, terminalVars>>

\* sendMessage resolves with a result of the response's file operations
\* and n commands: forEach(handleFileOperation), forEach(
\* handleTerminalCommand), whose promises are dropped, then finally.
SendMessageResolves(files, n) ==
  /\ hpc = "rest"
  /\ effects' = Forwarded(HandleFileOperations(effects, files), n)
  /\ invocations' =
       IF closure.terminal
       THEN invocations \o [i \in 1..n |-> Invocation(i, 1, FALSE)]
       ELSE invocations
  /\ Finally
  /\ UNCHANGED <<permissions, closure, props, panelSends, ignored, toggles>>
  /\ UNCHANGED <<serviceVars, textVars, agentVars, terminalVars>>

\* sendMessage throws: catch and finally.
SendMessageThrows ==
  /\ hpc = "rest"
  /\ Finally
  /\ UNCHANGED <<permissions, closure, props, effects, invocations,
                 panelSends, ignored, toggles>>
  /\ UNCHANGED <<serviceVars, textVars, agentVars, terminalVars>>

\* executeCommand answers a handleTerminalCommand nobody awaits.
DetachedReturns(i, exitCode) ==
  /\ invocations[i].state = "running"
  /\ ~invocations[i].awaited
  /\ invocations' = [invocations EXCEPT ![i].state = "exited",
                                        ![i].exitCode = exitCode]
  /\ UNCHANGED <<permissions, closure, props, isAiLoading, panelIsStreaming,
                 hpc, directives, cursor, effects, panelSends, ignored,
                 toggles>>
  /\ UNCHANGED <<serviceVars, textVars, agentVars, terminalVars>>

----------------------------------------------------------------------------
\* RealTerminal: one mounted component, its connectToBackend calls and the
\* cleanup of its effect.  socketService is a collaborator: connect and
\* createTerminal resolve or throw, and a terminal of the backend may exit.

\* connectToBackend up to its first await.
ConnectToBackend ==
  IF isConnectingRef \/ terminalIdRef # 0 \/ Len(connects) >= MaxConnects
  THEN UNCHANGED <<isConnectingRef, connects>>
  ELSE /\ isConnectingRef' = TRUE
       /\ connects' = Append(connects, "connect")

\* The timer of setTimeout(connectToBackend, 500) fires.
AutoConnect ==
  /\ connectTimer
  /\ connectTimer' = FALSE
  /\ ConnectToBackend
  /\ UNCHANGED <<mounted, terminalIdRef, backend, fallbacks, remounts>>
  /\ UNCHANGED <<serviceVars, textVars, agentVars, panelVars>>

\* socketService.connect() resolves: createTerminal is called.
ConnectResolves(i) ==
  /\ connects[i] = "connect"
  /\ connects' = [connects EXCEPT ![i] = "create"]
  /\ UNCHANGED <<mounted, connectTimer, isConnectingRef, terminalIdRef,
                 backend, fallbacks, remounts>>
  /\ UNCHANGED <<serviceVars, textVars, agentVars, panelVars>>

\* socketService.createTerminal resolves with the id of a new terminal of
\* the backend.
CreateResolves(i) ==
  /\ connects[i] = "create"
  /\ connects' = [connects EXCEPT ![i] = "done"]
  /\ backend' = Append(backend, "live")
  /\ terminalIdRef' = Len(backend) + 1
  /\ isConnectingRef' = FALSE
  /\ UNCHANGED <<mounted, connectTimer, fallbacks, remounts>>
  /\ UNCHANGED <<serviceVars, textVars, agentVars, panelVars>>

\* connect or createTerminal throws: the catch block installs a fallback
\* input handler.
ConnectThrows(i) ==
  /\ connects[i] \in {"connect", "create"}
  /\ connects' = [connects EXCEPT ![i] = "failed"]
  /\ isConnectingRef' = FALSE
  /\ fallbacks' = fallbacks + 1
  /\ UNCHANGED <<mounted, connectTimer, terminalIdRef, backend, remounts>>
  /\ UNCHANGED <<serviceVars, textVars, agentVars, panelVars>>

\* The user types "connect" or "retry": every fallback handler calls
\* connectToBackend, and the second call returns at the guard.  A disposed
\* terminal takes no input.
Retry ==
  /\ mounted
  /\ fallbacks > 0
  /\ terminalIdRef = 0
  /\ ~isConnectingRef
  /\ Len(connects) < MaxConnects
  /\ ConnectToBackend
  /\ UNCHANGED <<mounted, connectTimer, terminalIdRef, backend, fallbacks,
                 remounts>>
  /\ UNCHANGED <<serviceVars, textVars, agentVars, panelVars>>

\* The process of terminal id exits: the handler of onTerminalExit.
TerminalExit(id) ==
  /\ backend[id] = "live"
  /\ backend' = [backend EXCEPT ![id] = "exited"]
  /\ terminalIdRef' = IF terminalIdRef = id THEN 0 ELSE terminalIdRef
  /\ UNCHANGED <<mounted, connectTimer, isConnectingRef, connects,
                 fallbacks, remounts>>
  /\ UNCHANGED <<serviceVars, textVars, agentVars, panelVars>>

\* The component unmounts: the cleanup of the effect.
Unmount ==
  /\ mounted
  /\ mounted' = FALSE
  /\ connectTimer' = FALSE
  /\ backend' = IF terminalIdRef # 0
                THEN [backend EXCEPT ![terminalIdRef] = "killed"]
                ELSE backend
  /\ terminalIdRef' = 0
  /\ isConnectingRef' = FALSE
  /\ UNCHANGED <<connects, fallbacks, remounts>>
  /\ UNCHANGED <<serviceVars, textVars, agentVars, panelVars>>

\* The effect runs again on the same component after its cleanup, as it
\* does under React.StrictMode: the refs are kept, the terminal and the
\* timer are new.
Remount ==
  /\ ~mounted
  /\ remounts < MaxRemounts
  /\ remounts' = remounts + 1
  /\ mounted' = TRUE
  /\ connectTimer' = TRUE
  /\ fallbacks' = 0
  /\ UNCHANGED <<isConnectingRef, terminalIdRef, connects, backend>>
  /\ UNCHANGED <<serviceVars, textVars, agentVars, panelVars>>

----------------------------------------------------------------------------
\* The specification

SeqsOf(S, n) == [1..n -> S]

ServiceInit ==
  /\ config = DefaultConfig
  /\ persisted = {}
  /\ storedToken = FALSE
  /\ activeProcesses = <<>>
  /\ commandHistory = <<>>
  /\ sessions = <<>>
  /\ mock = [createSession |-> 0, executeCommand |-> 0, closeSession |-> 0,
             write |-> 0, fileEvent |-> 0, git |-> 0, deploy |-> 0,
             onFileOperation |-> 0, onGitOperation |-> 0]
  /\ call = [t \in Threads |-> NoCall]
  /\ ret = [t \in Threads |-> [success |-> FALSE, none |-> TRUE]]
  /\ batch = EmptyBatch
  /\ bpc = "idle"
  /\ phase = 1
  /\ idx = 1
  /\ seq = <<>>
  /\ results = EmptyResults
  /\ extCalls = 0
  /\ cfgUpdates = 0

\* No response text has been received.
TextInit(text) ==
  /\ response = text
  /\ operations = NoOperations
  /\ cleaned = <<>>
  /\ origin = <<>>
  /\ applied = {}

AgentInit ==
  /\ status = "idle"
  /\ isStreaming = FALSE
  /\ currentResponse = 0
  /\ streams = <<>>
  /\ timers = 0
  /\ completions = 0
  /\ apc = "none"
  /\ sends = 0
  /\ cancels = 0

\* The panel after its first render: every permission on.
PanelInit(given) ==
  /\ permissions = [flag \in PanelFlags |-> TRUE]
  /\ closure = [flag \in PanelFlags |-> TRUE]
  /\ props = given
  /\ isAiLoading = FALSE
  /\ panelIsStreaming = FALSE
  /\ hpc = "idle"
  /\ directives = <<>>
  /\ cursor = <<1, 1>>
  /\ effects = NoEffects
  /\ invocations = <<>>
  /\ panelSends = 0
  /\ ignored = 0
  /\ toggles = 0

\* RealTerminal after its effect ran: the timer is set.
TerminalInit ==
  /\ mounted = TRUE
  /\ connectTimer = TRUE
  /\ isConnectingRef = FALSE
  /\ terminalIdRef = 0
  /\ connects = <<>>
  /\ backend = <<>>
  /\ fallbacks = 0
  /\ remounts = 0

\* The panel was given no optional prop.
UiInit ==
  /\ PanelInit([onFileOperation |-> FALSE, onTerminalCommand |-> FALSE])
  /\ TerminalInit

Init == ServiceInit /\ TextInit(<<>>) /\ AgentInit /\ UiInit

\* executeOperations(operations), for every batch of at most MaxBatch
\* directives.
Begin ==
  /\ bpc = "idle"
  /\ \E n1 \in 0..MaxBatch : \E n2 \in 0..(MaxBatch - n1) :
     \E n3 \in 0..(MaxBatch - n1 - n2) :
     \E n4 \in 0..(MaxBatch - n1 - n2 - n3) :
     \E n5 \in 0..(MaxBatch - n1 - n2 - n3 - n4) :
     \E n6 \in 0..(MaxBatch - n1 - n2 - n3 - n4 - n5) :
     \E fo \in SeqsOf(FolderOps, n1), fi \in SeqsOf(FileOps, n2),
        te \in SeqsOf(TerminalOps, n3), bu \in SeqsOf(BuildOps, n4),
        gi \in SeqsOf(GitOps, n5), de \in SeqsOf(DeployOps, n6) :
       BeginBatch([folder |-> fo, file |-> fi, terminal |-> te,
                   build |-> bu, git |-> gi, deploy |-> de])
  /\ UNCHANGED <<textVars, agentVars, uiVars>>

Next ==
  \/ \E flag \in Flags, val \in BOOLEAN : UpdateConfig(flag, val)
  \/ Begin
  \/ DoFolder
  \/ DoFile
  \/ DoTerminal
  \/ DoBuild
  \/ DoGit
  \/ DoDeploy
  \/ \E t \in Threads : CreateSessionResolves(t)
  \/ \E t \in Threads : CreateSessionThrows(t)
  \/ \E t \in Threads, code \in ExitCodes : ExecResolves(t, code)
  \/ \E t \in Threads : ExecThrows(t)
  \/ \E t \in Threads : CloseResolves(t)
  \/ \E t \in Threads : CloseThrows(t)
  \/ \E t \in Threads : GitResolves(t)
  \/ \E t \in Threads : GitThrows(t)
  \/ \E t \in Threads : DeployResolves(t)
  \/ \E t \in Threads : DeployThrows(t)
  \/ \E name \in Names : ExtStart(name)
  \/ \E name \in Names : ExtStop(name)
  \/ \E sid \in DOMAIN sessions : ProcessExit(sid)

Spec == Init /\ [][Next]_vars

\* clearCommandHistory(), called on a history that holds an entry (on an
\* empty history the call changes nothing).
ClearCommandHistory ==
  /\ commandHistory # <<>>
  /\ commandHistory' = <<>>
  /\ UNCHANGED <<svcVars, activeProcesses, sessions, mock, call, ret,
                 batchVars, extCalls, cfgUpdates>>
  /\ UNCHANGED <<textVars, agentVars, uiVars>>

\* The service with a caller that also clears the command history.
HistoryNext == Next \/ ClearCommandHistory
HistorySpec == Init /\ [][HistoryNext]_vars

\* The service under the scheduling the code has.  A step of the loop of
\* executeOperations is taken once it can be, and createSession,
\* closeSession, the git service and the deployment answer every call, with
\* a value or with an exception.  terminalService.executeCommand answers
\* when the command exits, which a command need not do: no fairness for it.
LoopStep == DoFolder \/ DoFile \/ DoTerminal \/ DoBuild \/ DoGit \/ DoDeploy
Answers(t) ==
  \/ CreateSessionResolves(t) \/ CreateSessionThrows(t)
  \/ CloseResolves(t) \/ CloseThrows(t)
  \/ GitResolves(t) \/ GitThrows(t)
  \/ DeployResolves(t) \/ DeployThrows(t)
LiveSpec ==
  /\ Init /\ [][Next]_vars
  /\ WF_vars(LoopStep)
  /\ \A t \in Threads : WF_vars(Answers(t))

\* The extractor and the sanitizer on every text of at most MaxText tokens.
ParseInit ==
  ServiceInit /\ AgentInit /\ UiInit /\ \E text \in Texts : TextInit(text)
ParseNext == DoParse \/ DoParseAgain \/ DoClean \/ FeedBack
ParseSpec == ParseInit /\ [][ParseNext]_vars

\* The agent with a caller that sends and cancels.
Transport(i) == OnChunk(i) \/ OnDone(i) \/ OnError(i)
Fetch(i) == RESTResolves(i) \/ RESTThrows(i)
AgentNext ==
  \/ \E configured \in BOOLEAN : StreamChat(configured)
  \/ StartSocket
  \/ StartREST
  \/ \E i \in DOMAIN streams : Transport(i)
  \/ \E i \in DOMAIN streams : Fetch(i)
  \/ \E pending \in BOOLEAN : FinishComplete(pending)
  \/ FinishError
  \/ TimerFires
  \/ CancelStream
  \/ CompletionSettles
AgentSpec == Init /\ [][AgentNext]_vars

\* The agent under the scheduling the code has: synchronous code runs to
\* its end, a timer that was set fires, the transport ends every stream
\* with onDone or onError once its tokens are delivered, and the fetch
\* resolves or throws.  No fairness for the caller's sends and cancels.
AgentLiveSpec ==
  /\ Init /\ [][AgentNext]_vars
  /\ WF_vars(StartSocket \/ StartREST)
  /\ WF_vars(\E pending \in BOOLEAN : FinishComplete(pending))
  /\ WF_vars(FinishError)
  /\ WF_vars(TimerFires)
  /\ \A i \in 1..MaxSends : WF_vars(i \in DOMAIN streams /\ Transport(i))
  /\ \A i \in 1..MaxSends : WF_vars(i \in DOMAIN streams /\ Fetch(i))

\* The panel with a user who sends messages and flips permission switches,
\* for every choice of the optional props.
PanelSpecInit ==
  /\ ServiceInit /\ TextInit(<<>>) /\ AgentInit /\ TerminalInit
  /\ \E given \in [onFileOperation : BOOLEAN, onTerminalCommand : BOOLEAN] :
       PanelInit(given)
PanelNext ==
  \/ \E flag \in PanelFlags : TogglePermission(flag)
  \/ \E connected \in BOOLEAN : HandleSend(connected)
  \/ \E resp \in Responses : OnComplete(resp)
  \/ OnStreamError
  \/ \E exitCode \in ExitCodes : CommandReturns(exitCode)
  \/ \E resp \in Responses, n \in 0..MaxSeq :
       SendMessageResolves(resp.files, n)
  \/ SendMessageThrows
  \/ \E i \in DOMAIN invocations, exitCode \in ExitCodes :
       DetachedReturns(i, exitCode)
PanelSpec == PanelSpecInit /\ [][PanelNext]_vars

\* One RealTerminal from its mount on.
TerminalNext ==
  \/ AutoConnect
  \/ \E i \in DOMAIN connects : ConnectResolves(i)
  \/ \E i \in DOMAIN connects : CreateResolves(i)
  \/ \E i \in DOMAIN connects : ConnectThrows(i)
  \/ Retry
  \/ \E id \in DOMAIN backend : TerminalExit(id)
  \/ Unmount
  \/ Remount
TerminalSpec == Init /\ [][TerminalNext]_vars

----------------------------------------------------------------------------
\* Where the directives of the batch stand

Domains == {"folder", "file", "terminal", "build", "git", "deploy"}
Running == bpc \in {"loop", "call", "rejected"}
PhaseOf(d) == CHOOSE p \in 1..NumPhases : PhaseOrder[p] = d

\* The loop has passed directive i of domain d.
Finished(d, i) ==
  \/ bpc = "done"
  \/ /\ Running
     /\ \/ phase > PhaseOf(d)
        \/ phase = PhaseOf(d) /\ idx > i

\* Directive i of domain d has been started: the loop has passed it, or it
\* is the current directive and a call of it has been made.
Started(d, i) ==
  \/ Finished(d, i)
  \/ /\ Running
     /\ phase = PhaseOf(d)
     /\ idx = i
     /\ bpc \in {"call", "rejected"} \/ Len(seq) > 0

\* No directive of a later domain of the order is started before every
\* directive of each earlier domain has finished.
Respects(order) ==
  \A a \in 1..Len(order), b \in 1..Len(order) :
    a < b =>
      \A i \in DOMAIN batch[order[b]] :
        Started(order[b], i) =>
          \A j \in DOMAIN batch[order[a]] : Finished(order[a], j)

\* The thread that runs executeOperations takes a step.
BatchStep == <<bpc, phase, idx, seq>>' # <<bpc, phase, idx, seq>>

----------------------------------------------------------------------------
\* C1 as stated: the phases run in the order folder, file, terminal, git,
\* build/run, deploy, so every git directive has finished before a build,
\* test, run or dev directive is started.
C1_GitBeforeBuild ==
  Respects(<<"folder", "file", "terminal", "git", "build", "deploy">>)

\* C1 as amended: the phases run in the order folder, file, terminal,
\* build/run, git, deploy: no directive of a later phase is started before
\* every directive of each earlier phase has finished, so every build, test,
\* run and dev directive has finished before a git directive is started.
C1_BuildBeforeGit ==
  Respects(<<"folder", "file", "terminal", "build", "git", "deploy">>)

\* A git directive is in flight in a batch that also holds a build directive.
C1_Witness ==
  /\ bpc = "call"
  /\ CurDomain = "git"
  /\ Len(batch.build) > 0
  /\ Len(results.build) > 0

----------------------------------------------------------------------------
\* The loop is about to run a terminal_run directive or the next command of
\* a terminal_sequence.
AtCommand ==
  /\ AtLoop("terminal")
  /\ \/ Cur.type = "run" /\ Cur.n > 0
     \/ Cur.type = "sequence" /\ Len(seq) < Cur.n

\* The results the step adds to terminalResults.
AddedTerminal ==
  SubSeq(results'.terminal, Len(results.terminal) + 1, Len(results'.terminal))

\* C2: a terminal_run directive, or a command of a terminal_sequence, that
\* is executed while terminalEnabled is false returns a result with
\* success = false at once, and terminalService.createSession is not called.
C2_TerminalDisabled ==
  [][(AtCommand /\ ~config.terminalEnabled /\ BatchStep) =>
        /\ call'["batch"].m = "executeCommand"
        /\ call'["batch"].pc = "returned"
        /\ ~ret'["batch"].success
        /\ AddedTerminal = Append(seq, ret'["batch"])
        /\ mock' = mock
        /\ sessions' = sessions]_vars

\* A terminal_run directive was refused and no session was ever asked for.
C2_Witness ==
  /\ bpc = "done"
  /\ Len(batch.terminal) = 1
  /\ batch.terminal[1].type = "run"
  /\ ~config.terminalEnabled
  /\ Len(results.terminal) = 1
  /\ ~results.terminal[1].success
  /\ mock.createSession = 0

----------------------------------------------------------------------------
\* The loop is about to run a directive of the file/folder, git or deploy
\* domain that executeOperations hands to the service, and the permission
\* flag of that domain is false.
AtDisabled(domain) ==
  /\ bpc = "loop"
  /\ CurDomain = domain
  /\ CASE domain = "folder" ->
            Cur.type = "create" /\ ~config.fileOperationsEnabled
       [] domain = "file" -> ~config.fileOperationsEnabled
       [] domain = "git" -> ~config.gitEnabled
       [] domain = "deploy" ->
            Cur.platform = "vercel" /\ ~config.deployEnabled
       [] OTHER -> FALSE

DisabledMessage(domain) ==
  CASE domain \in {"folder", "file"} -> "File operations are disabled"
    [] domain = "git" -> "Git operations are disabled"
    [] domain = "deploy" -> "Deployment operations are disabled"

\* The result the step adds to the result array of the domain.
AddedTo(domain) ==
  SubSeq(results'[domain], Len(results[domain]) + 1, Len(results'[domain]))

\* C3: a file, folder, git or deploy directive executed while the flag of
\* its domain is false yields a failure result that carries the domain's
\* fixed "operations are disabled" message, and no collaborator is called.
C3_DomainDisabled ==
  [][\A domain \in {"folder", "file", "git", "deploy"} :
       (AtDisabled(domain) /\ BatchStep) =>
         /\ call'["batch"].pc = "returned"
         /\ ~ret'["batch"].success
         /\ ret'["batch"].error = DisabledMessage(domain)
         /\ domain # "folder" => AddedTo(domain) = <<ret'["batch"]>>
         /\ mock' = mock]_vars

\* A git directive was refused and gitService was never called.
C3_Witness ==
  /\ bpc = "done"
  /\ ~config.gitEnabled
  /\ Len(batch.git) = 2
  /\ Len(results.git) = 2
  /\ \A i \in 1..2 : results.git[i].error = "Git operations are disabled"
  /\ mock.git = 0

----------------------------------------------------------------------------
\* C4 as stated: a build, test, run or dev directive executed while
\* buildEnabled is false yields a failure with the "Build operations are
\* disabled" message and has no side effect: no collaborator is called, no
\* session is created and the named-process registry does not change.
C4_BuildDisabled ==
  [][(AtLoop("build") /\ ~config.buildEnabled /\ BatchStep) =>
        /\ call'["batch"].pc = "returned"
        /\ ~ret'["batch"].success
        /\ ret'["batch"].output = "Build operations are disabled"
        /\ mock' = mock
        /\ sessions' = sessions
        /\ activeProcesses' = activeProcesses]_vars

----------------------------------------------------------------------------
\* C5 as stated: a terminal_start or terminal_stop directive executed while
\* terminalEnabled is false calls no collaborator: no session is created or
\* closed, nothing is written and the registry does not change.
C5_StartStopDisabled ==
  [][(/\ AtLoop("terminal")
      /\ Cur.type \in {"start", "stop"}
      /\ ~config.terminalEnabled
      /\ BatchStep) =>
        /\ call'["batch"].pc \in {"none", "returned"}
        /\ mock' = mock
        /\ sessions' = sessions
        /\ activeProcesses' = activeProcesses]_vars

----------------------------------------------------------------------------
\* The loop runs, or has just left, a terminal_sequence directive.
AtSequence ==
  /\ bpc \in {"loop", "call"}
  /\ CurDomain = "terminal"
  /\ Cur.type = "sequence"

\* rs is a fail-fast prefix of the results of n commands: every result but
\* the last has exit code 0, and rs is shorter than n only when its last
\* result has a non-zero exit code.
FailFastPrefix(rs, n) ==
  /\ Len(rs) <= n
  /\ \A i \in 1..(Len(rs) - 1) : rs[i].exitCode = 0
  /\ Len(rs) < n => Len(rs) >= 1 /\ rs[Len(rs)].exitCode # 0

\* C6: a terminal_sequence fails fast.  A command of the sequence is
\* dispatched only when every command before it has exited with code 0, in
\* order, and when the sequence is left the results it adds are the executed
\* prefix: k results when the k-th command is the first to exit non-zero,
\* n results when none fails.
C6_SequenceFailFast ==
  [][/\ AtSequence' =>
          /\ \A i \in 1..Len(seq') : seq'[i].exitCode = 0
          /\ bpc' = "call" => call'["batch"].command = Command(Len(seq') + 1)
     /\ (AtSequence /\ <<phase, idx>>' # <<phase, idx>>) =>
          FailFastPrefix(AddedTerminal, Cur.n)]_vars

\* A sequence of three commands whose second command exited non-zero: two
\* results, two commands dispatched.
C6_Witness ==
  /\ bpc = "done"
  /\ Len(batch.terminal) = 1
  /\ batch.terminal[1].type = "sequence"
  /\ batch.terminal[1].n = 3
  /\ Len(batch.build) = 0
  /\ Len(results.terminal) = 2
  /\ results.terminal[1].exitCode = 0
  /\ results.terminal[2].exitCode = 1
  /\ mock.executeCommand = 2
  /\ mock.createSession = 2 + extCalls

----------------------------------------------------------------------------
\* Thread t calls startProcess in this step.
Starts(t) ==
  /\ call'[t].m = "startProcess"
  /\ IF t = "batch" THEN bpc = "loop" /\ BatchStep ELSE extCalls' # extCalls

\* Thread t's startProcess resumes from createSession with a new session in
\* this step.
Created(t) ==
  /\ call[t].m = "startProcess"
  /\ call[t].pc = "awaitCreate"
  /\ call'[t] # call[t]
  /\ Len(sessions') > Len(sessions)

\* Thread t's stopProcess returns true in this step.
Stopped(t) ==
  /\ call[t].m = "stopProcess"
  /\ call[t].pc = "awaitClose"
  /\ call'[t].pc = "returned"

----------------------------------------------------------------------------
\* The open sessions started under name.
OpenSessions(name) ==
  {sid \in DOMAIN sessions :
     sessions[sid].name = name /\ sessions[sid].state = "open"}

ProcessNames == {"dev", "app"}

\* C8 as stated: startProcess checks and inserts the name atomically, so
\* however two calls for one name overlap, at most one session is created
\* and left open for that name.
C8_AtomicStart ==
  \A name \in ProcessNames : Cardinality(OpenSessions(name)) <= 1

----------------------------------------------------------------------------
\* C9 as stated: the registry invariant.  Every session id held in the
\* registry is an open session (not exited, not closed), and every open
\* session started under a name is the one the registry holds for that name.
C9_RegistryInvariant ==
  /\ \A name \in DOMAIN activeProcesses :
       /\ activeProcesses[name] \in DOMAIN sessions
       /\ sessions[activeProcesses[name]].state = "open"
  /\ \A name \in ProcessNames : \A sid \in OpenSessions(name) :
       /\ name \in DOMAIN activeProcesses
       /\ activeProcesses[name] = sid

----------------------------------------------------------------------------
\* C10 as stated: whatever collaborator call throws, executeOperations
\* completes normally; its promise never rejects.
C10_NeverRejects == bpc # "rejected"

----------------------------------------------------------------------------
\* The directive after the current one: the loop and the position in it.
NextDirective == Normalize(batch, phase, idx + 1)

\* C11 as stated: failure isolation.  Whatever the outcome of a directive,
\* the batch goes on: it stays on a terminal_sequence that has commands
\* left, or it moves to the next directive of the batch; it never stops
\* with directives left unattempted.
C11_FailureIsolation ==
  [][(/\ bpc \in {"loop", "call"}
      /\ NextDirective[1] <= NumPhases
      /\ BatchStep
      /\ bpc' # "call") =>
        /\ bpc' = "loop"
        /\ \/ AtSequence /\ <<phase', idx'>> = <<phase, idx>>
           \/ <<phase', idx'>> = <<NextDirective[1], NextDirective[2]>>]_vars

----------------------------------------------------------------------------
\* Thread t has a call to a collaborator in flight.
InFlight(t) ==
  call[t].pc \in {"awaitCreate", "awaitExec", "awaitClose", "awaitGit",
                  "awaitDeploy"}

\* C12: the directives of a batch run one at a time, in order.  A
\* directive is started only when no call of the batch is in flight, the
\* loop leaves a directive only when the directive's call has resolved, and
\* then it moves to the directive that follows it in the same array, or to
\* the first directive of the next non-empty array.
C12_Sequential ==
  [][/\ (bpc = "loop" /\ BatchStep) => ~InFlight("batch")
     /\ (bpc # "idle" /\ <<phase', idx'>> # <<phase, idx>>) =>
          /\ <<phase', idx'>> = <<NextDirective[1], NextDirective[2]>>
          /\ ~InFlight("batch")'
     /\ bpc' \in {"loop", "done"} => ~InFlight("batch")']_vars

\* The second of two git directives is in flight after the first resolved.
C12_Witness ==
  /\ bpc = "call"
  /\ CurDomain = "git"
  /\ idx = 2
  /\ Len(results.git) = 1
  /\ call["batch"].pc = "awaitGit"

----------------------------------------------------------------------------
Range(f) == {f[i] : i \in DOMAIN f}

\* The matches ms of one kind, each with its directive.
Occurrences(text, ms, kind) ==
  {[from |-> m.from, to |-> m.to, d |-> Directive(kind, text, m)] :
     m \in Range(ms)}

\* The file tags and the terminal tags the extractor recognizes in text.
FileOccurrences(text) ==
  Occurrences(text, BlockMatches(text, "file_create", 1), "file_create")
  \cup Occurrences(text, SelfMatches(text, "file_delete", 1), "file_delete")
TerminalOccurrences(text) ==
  Occurrences(text, BlockMatches(text, "terminal_run", 1), "terminal_run")
  \cup Occurrences(text, BlockMatches(text, "terminal_start", 1),
                   "terminal_start")
  \cup Occurrences(text, SelfMatches(text, "terminal_stop", 1),
                   "terminal_stop")

\* The directives of a set of occurrences in the order of the text.
RECURSIVE InTextOrder(_)
InTextOrder(occs) ==
  IF occs = {} THEN <<>> ELSE
  LET first == CHOOSE o \in occs : \A other \in occs : o.from <= other.from
  IN <<first.d>> \o InTextOrder(occs \ {first})

\* C13 as stated: extraction keeps the order of the text within a domain.
\* The file directives are in the order in which their tags appear in the
\* text, and so are the terminal directives.
C13_TextualOrder ==
  "parse" \in applied =>
    /\ operations.fileOperations = InTextOrder(FileOccurrences(response))
    /\ operations.terminalCommands =
         InTextOrder(TerminalOccurrences(response))

----------------------------------------------------------------------------
IsCreateTag(tok) == tok.k \in {"open", "close"} /\ tok.tag = "file_create"

\* The well-formed file_create blocks of text: an opening tag with a path,
\* a body that holds no opening tag with a path and no closing tag of the
\* kind, the closing tag.
CreateBlocks(text) ==
  {blk \in [from : DOMAIN text, to : DOMAIN text] :
     /\ blk.from < blk.to
     /\ IsOpener(text[blk.from], "file_create")
     /\ IsCloser(text[blk.to], "file_create")
     /\ \A i \in (blk.from + 1)..(blk.to - 1) :
          /\ ~IsOpener(text[i], "file_create")
          /\ ~IsCloser(text[i], "file_create")}

\* The directive the block is to yield: its path and its body.
BlockDirective(text, blk) ==
  [type |-> "create", path |-> text[blk.from].attr,
   content |-> Body(text, blk)]

\* C14 as stated: every well-formed file_create block with path p and body
\* b yields exactly one file directive {type: create, path: p, content: b},
\* and the sanitized text of an input that holds such a block holds no
\* file_create tag.
C14_FileCreate ==
  \A blk \in CreateBlocks(response) :
    /\ "parse" \in applied =>
         Cardinality({k \in DOMAIN operations.fileOperations :
                        operations.fileOperations[k] =
                          BlockDirective(response, blk)})
         = Cardinality({other \in CreateBlocks(response) :
                          BlockDirective(response, other) =
                            BlockDirective(response, blk)})
    /\ "clean" \in applied =>
         \A i \in DOMAIN cleaned : ~IsCreateTag(cleaned[i])

----------------------------------------------------------------------------
\* tok is a tag without the attribute its kind requires.
MissingAttr(tok) ==
  tok.k \in {"open", "self"} /\ tok.tag \in NeedsAttr /\ tok.attr = ""

\* text without its i-th token.
Remove(text, i) == SubSeq(text, 1, i - 1) \o SubSeq(text, i + 1, Len(text))

\* The matches behind the directives of parseOperations(text), array by
\* array, in the order of the array.
Spans(text) ==
  [terminalCommands |->
     BlockMatches(text, "terminal_run", 1)
     \o BlockMatches(text, "terminal_start", 1)
     \o SelfMatches(text, "terminal_stop", 1),
   fileOperations |->
     BlockMatches(text, "file_create", 1)
     \o SelfMatches(text, "file_delete", 1),
   buildOperations |-> SelfMatches(text, "dev", 1)]

\* The position p of a text, in the text without its i-th token.
Shifted(p, i) == IF p > i THEN p - 1 ELSE p

\* C15: a tag that lacks its required attribute is plain text to the
\* extractor.  No directive starts at it, and the text yields the same
\* matches as the text without the tag: as many directives in every
\* domain, at the same places, each equal to the one extracted without the
\* tag, except that a block whose body holds the tag has it in its content
\* (its type is the same).
C15_MissingAttribute ==
  "parse" \in applied =>
    \A i \in DOMAIN response : MissingAttr(response[i]) =>
      LET without == Remove(response, i)
          others == parseOperations(without)
      IN \A dom \in DOMAIN Spans(response) :
           LET here == Spans(response)[dom]
               there == Spans(without)[dom]
           IN /\ Len(operations[dom]) = Len(here)
              /\ Len(others[dom]) = Len(here)
              /\ Len(there) = Len(here)
              /\ \A k \in DOMAIN here :
                   /\ here[k].from # i
                   /\ there[k] = [from |-> Shifted(here[k].from, i),
                                  to |-> Shifted(here[k].to, i)]
                   /\ others[dom][k].type = operations[dom][k].type
                   /\ i \notin (here[k].from)..(here[k].to) =>
                        others[dom][k] = operations[dom][k]

\* <file_create></file_create><file_create path="a">x</file_create> was
\* parsed: one directive, that of the second block.
C15_Witness ==
  /\ "parse" \in applied
  /\ response = <<Open("file_create", ""), Close("file_create"),
                  Open("file_create", "a"), Close("file_create")>>
  /\ operations.fileOperations =
       <<[type |-> "create", path |-> "a", content |-> <<>>]>>
  /\ operations.terminalCommands = <<>>

----------------------------------------------------------------------------
IsCreate(d) == d.type = "create"

\* C16 as stated: an opening file_create tag with no closing tag of its own
\* yields no directive, also when a well-formed block of the kind follows
\* it, and that block is extracted with its own path and its own body.
\* The create directives are those of the well-formed blocks, one each.
C16_UnclosedBlock ==
  "parse" \in applied =>
    LET creates == SelectSeq(operations.fileOperations, IsCreate) IN
    /\ Len(creates) = Cardinality(CreateBlocks(response))
    /\ \A blk \in CreateBlocks(response) :
         [type |-> "create", path |-> response[blk.from].attr,
          content |-> Trim(Body(response, blk))] \in Range(creates)

----------------------------------------------------------------------------
\* C17 as stated: the sanitized text holds no directive tag syntax, so the
\* extractor finds no directive in it, in any domain.
C17_SanitizedHasNoDirective ==
  ("feedback" \in applied /\ "parse" \in applied) => operations = NoOperations

----------------------------------------------------------------------------
\* C18 as stated: the sanitizer is idempotent, cleaning a cleaned text
\* gives the same text.
C18_Idempotent ==
  ("feedback" \in applied /\ "clean" \in applied) => cleaned = response

----------------------------------------------------------------------------
\* C19 as stated: executeCommand enforces the command timeout, so every
\* call of executeCommand returns in the end, also when the command never
\* exits.
C19_EventuallyReturns ==
  (call["batch"].m = "executeCommand" /\ ~Idle("batch")) ~> Idle("batch")

----------------------------------------------------------------------------
\* The sessions executeCommand created that are not closed.
OpenEphemeral ==
  {sid \in DOMAIN sessions :
     sessions[sid].name = "" /\ sessions[sid].state # "closed"}

\* C20 as stated: when executeCommand has returned, with any outcome, the
\* session it created is closed, so no ephemeral session is open once the
\* batch has resolved.
C20_EphemeralClosed ==
  /\ \A t \in Threads :
       (call[t].m = "executeCommand" /\ call[t].pc = "returned"
          /\ call[t].sid # 0) => sessions[call[t].sid].state = "closed"
  /\ bpc = "done" => OpenEphemeral = {}

----------------------------------------------------------------------------
\* Thread t's executeCommand returns in this step after its command ran:
\* terminalService.executeCommand had answered with the exit code.
ReturnsAfterRun(t) ==
  /\ call[t].m = "executeCommand"
  /\ call[t].pc = "awaitClose"
  /\ call'[t].pc = "returned"

\* C21 as stated: every terminal command executed appends exactly one entry
\* {command, result} to the history; the history only grows, entry by entry
\* and with no entry changed, except that clearCommandHistory empties it.
C21_CommandHistory ==
  [][/\ \A t \in Threads :
          ReturnsAfterRun(t) =>
            /\ Len(commandHistory') = Len(commandHistory) + 1
            /\ commandHistory'[Len(commandHistory')].command = call[t].command
     /\ \/ commandHistory' = commandHistory
        \/ commandHistory' = <<>>
        \/ /\ Len(commandHistory') = Len(commandHistory) + 1
           /\ SubSeq(commandHistory', 1, Len(commandHistory)) = commandHistory
           /\ \E t \in Threads : ReturnsAfterRun(t)]_vars

----------------------------------------------------------------------------
\* C22 as stated: the reporter is called exactly once per resolved
\* directive, with the directive's result, be it a success, a collaborator
\* failure or a refusal of the permission gate.  For the file and the git
\* directives of a batch that has resolved: as many onFileOperation calls
\* as file results, as many onGitOperation calls as git results.
C22_OneCallbackPerDirective ==
  bpc = "done" =>
    /\ mock.onFileOperation = Len(results.file)
    /\ mock.onGitOperation = Len(results.git)

----------------------------------------------------------------------------
\* The terminal directives of b that are not sequences, and the number of
\* commands its sequences hold.
SingleCommands(b) ==
  Cardinality({i \in DOMAIN b.terminal : b.terminal[i].type # "sequence"})
RECURSIVE SequenceCommands(_)
SequenceCommands(ops) ==
  IF ops = <<>> THEN 0
  ELSE (IF Head(ops).type = "sequence" THEN Head(ops).n ELSE 0)
       + SequenceCommands(Tail(ops))

\* C23 as stated: every directive of a batch is consumed once and gives
\* one result in the collections executeOperations returns, a sequence one
\* result per executed command.
C23_OneResultPerDirective ==
  bpc = "done" =>
    /\ Len(results.file) = Len(batch.folder) + Len(batch.file)
    /\ Len(results.terminal) >= SingleCommands(batch)
    /\ Len(results.terminal) <=
         SingleCommands(batch) + SequenceCommands(batch.terminal)
    /\ Len(results.build) = Len(batch.build)
    /\ Len(results.git) = Len(batch.git)
    /\ Len(results.deploy) = Len(batch.deploy)

----------------------------------------------------------------------------
----------------------------------------------------------------------------
\* The permission flag of a domain, and the result array of the domain.
DomainFlag(domain) ==
  CASE domain \in {"folder", "file"} -> "fileOperationsEnabled"
    [] domain = "terminal" -> "terminalEnabled"
    [] domain = "build" -> "buildEnabled"
    [] domain = "git" -> "gitEnabled"
    [] domain = "deploy" -> "deployEnabled"
ResultsOf(domain) == results[IF domain = "folder" THEN "file" ELSE domain]

\* The domain was disabled while the batch was in flight: its flag is
\* false, and the batch holds a success of the domain, which it got while
\* the flag was true.  A success of the build domain tells nothing, since
\* runTests succeeds with the flag false.
DisabledInFlight(domain) ==
  /\ ~config[DomainFlag(domain)]
  /\ domain # "build"
  /\ \E i \in DOMAIN ResultsOf(domain) : ResultsOf(domain)[i].success

\* C25 as stated: a directive's permission check reads the config in force
\* when the directive is executed, so once updateConfig has disabled a
\* domain while a batch is in flight, every directive of the domain the
\* batch has not started yet is refused and no collaborator is called.
C25_NoStalePermission ==
  [][\A domain \in Domains :
       (AtLoop(domain) /\ DisabledInFlight(domain) /\ BatchStep) =>
         /\ bpc' # "call"
         /\ mock' = mock
         /\ sessions' = sessions]_vars

----------------------------------------------------------------------------
\* The edges of the status the specification names.
StatusEdges ==
  {<<"idle", "thinking">>, <<"thinking", "streaming">>,
   <<"streaming", "applying">>, <<"applying", "idle">>,
   <<"thinking", "error">>, <<"streaming", "error">>,
   <<"applying", "error">>, <<"error", "idle">>}

\* A token has arrived on a stream that is still open.
TokenArrived ==
  \E i \in DOMAIN streams : streams[i].state = "open" /\ streams[i].tokens > 0

\* C26 as stated: the status changes along the edges idle->thinking,
\* thinking->streaming, streaming->applying, applying->idle,
\* thinking/streaming/applying->error and error->idle only, on the socket
\* and on the request/response fallback, and it is streaming only after a
\* token has arrived.
C26_StatusEdges ==
  [][/\ status' # status => <<status, status'>> \in StatusEdges
     /\ (status' = "streaming" /\ status # "streaming") => TokenArrived']_vars

----------------------------------------------------------------------------
\* C27 as stated: the status leaves applying for idle only when every
\* directive of the response has been resolved; while the work the
\* completion callback started is still going on, the status is applying.
C27_ApplyingUntilResolved == completions > 0 => status = "applying"

----------------------------------------------------------------------------
----------------------------------------------------------------------------
\* A step that is a call of parseOperations.
ParseStep == applied' \ applied \in {{"parse"}, {"again"}}

----------------------------------------------------------------------------
\* Thread t's stopProcess is awaiting closeSession.
Closing(t) == call[t].m = "stopProcess" /\ call[t].pc = "awaitClose"

\* Thread t's stopProcess returns in this step without having awaited.
StopRefused(t) ==
  /\ call'[t] # call[t]
  /\ call'[t].m = "stopProcess"
  /\ call'[t].pc = "returned"
  /\ ~Closing(t)

\* C30 as stated: stopProcess(name) on a registered name closes the
\* session the name is mapped to, removes the mapping and reports success;
\* on an unregistered name it reports failure, closes no session and
\* leaves the registry unchanged; and two overlapping calls for the same
\* name close the session at most once.
C30_StopNamed ==
  [][/\ \A t \in Threads : (Closing(t)' /\ ~Closing(t)) =>
          /\ call'[t].name \in DOMAIN activeProcesses
          /\ call'[t].sid = activeProcesses[call'[t].name]
          /\ mock' = Bump("closeSession")
     /\ \A t \in Threads : (Closing(t) /\ call'[t].pc = "returned") =>
          /\ ret'[t].success
          /\ call[t].name \notin DOMAIN activeProcesses'
          /\ sessions'[call[t].sid].state = "closed"
     /\ \A t \in Threads : StopRefused(t) =>
          /\ call'[t].name \notin DOMAIN activeProcesses
          /\ ~ret'[t].success
          /\ mock' = mock
          /\ sessions' = sessions
          /\ activeProcesses' = activeProcesses
     /\ \A t \in Threads, u \in Threads :
          (t # u /\ Closing(t)' /\ Closing(u)') =>
            call'[t].sid # call'[u].sid]_vars

----------------------------------------------------------------------------
\* The token deployToVercel reads: the config's, else the stored one.
NoToken == ~(config.vercelToken \/ storedToken)

\* The batch's loop is at a deploy directive for vercel and takes a step.
DeployEnters ==
  /\ bpc = "loop"
  /\ CurDomain = "deploy"
  /\ Cur.platform = "vercel"
  /\ (bpc' # bpc \/ results' # results)

\* quickDeploy answers the batch's deployToVercel in this step.
DeployAnswered ==
  /\ bpc = "call"
  /\ call["batch"].pc = "awaitDeploy"
  /\ bpc' # bpc

\* C37: a deploy directive executed with the deploy permission on and no
\* token in the config or in storage returns the failure "Vercel token not
\* configured" and quickDeploy is not called; quickDeploy is called only
\* with the permission on and a token; and when quickDeploy has been
\* called, deployToVercel returns a result, a success or a failure that
\* carries the error's message, and executeOperations is not rejected.
C37_DeployFailsSoftly ==
  [][/\ (DeployEnters /\ config.deployEnabled /\ NoToken) =>
          /\ mock' = mock
          /\ bpc' # "rejected"
          /\ results' =
               [results EXCEPT !.deploy =
                  Append(@, DeployResult(FALSE,
                                         "Vercel token not configured"))]
     /\ (mock'.deploy # mock.deploy) =>
          /\ DeployEnters
          /\ config.deployEnabled
          /\ ~NoToken
          /\ mock'.deploy = mock.deploy + 1
     /\ DeployAnswered =>
          /\ bpc' # "rejected"
          /\ mock' = mock
          /\ \E r \in {DeployResult(TRUE, ""),
                        DeployResult(FALSE, "error.message")} :
               results' = [results EXCEPT !.deploy = Append(@, r)]]_vars

\* A batch of two deploy directives: the first found no token and failed
\* without a call of quickDeploy, the second, after a token was configured,
\* called quickDeploy, which threw.
C37_Witness ==
  /\ bpc = "done"
  /\ config.deployEnabled
  /\ results.deploy = <<DeployResult(FALSE, "Vercel token not configured"),
                        DeployResult(FALSE, "error.message")>>
  /\ mock.deploy = 1

----------------------------------------------------------------------------
\* C34 as stated: in every state of the agent, isStreaming is true exactly
\* when the status is thinking or streaming.
C34_StreamingIffStatus ==
  isStreaming <=> status \in {"thinking", "streaming"}

\* C35 as stated: a timer of handleStreamError that fires while a later
\* interaction is thinking or streaming does not change the status.
C35_TimerSparesNewInteraction ==
  [][(timers' < timers /\ isStreaming
        /\ status \in {"thinking", "streaming"}) =>
       status' = status]_vars

\* An event of stream i arrives in this step.
EventOf(i) == streams'[i].state # streams[i].state
                \/ streams'[i].tokens # streams[i].tokens

\* C36 as stated: after cancelStream an event of the cancelled stream
\* (chunk, done, error, or the answer of the fetch) leaves the status and
\* the response unchanged and starts neither handleStreamComplete nor
\* handleStreamError, the handlers that invoke the caller's callbacks.
C36_CancelledStreamSilent ==
  [][\A i \in DOMAIN streams :
       (streams[i].cancelled /\ EventOf(i)) =>
         /\ status' = status
         /\ currentResponse' = currentResponse
         /\ isStreaming' = isStreaming
         /\ apc' = apc]_vars

----------------------------------------------------------------------------
\* The calls of the project store handleFileOperation makes.
StoreCalls == {"createFile", "createFolder", "openFile", "deleteNode"}

\* C31 as stated: with the fileOperations permission off, at the send and
\* at the completion, the step of onComplete creates, edits, deletes or
\* opens no file or folder in the project store.
C31_NoFileEffectWhenOff ==
  [][(/\ hpc = "stream"
      /\ ~permissions.fileOperations
      /\ ~closure.fileOperations) =>
       \A c \in StoreCalls : effects'[c] = effects[c]]_vars

\* The invocation this step made for onComplete, which awaits it.
Invoked == invocations'[Len(invocations')]
StartsAwaited == Len(invocations') > Len(invocations) /\ Invoked.awaited

\* C32 as stated: onComplete starts a command of a terminal_sequence only
\* when every earlier command of that sequence exited with code 0.
C32_PanelSequenceFailsFast ==
  [][(StartsAwaited /\ directives'[Invoked.d].type = "sequence") =>
       \A i \in 1..(Len(invocations') - 1) :
         (/\ invocations'[i].resp = Invoked.resp
          /\ invocations'[i].awaited
          /\ invocations'[i].d = Invoked.d) =>
           invocations'[i].exitCode = 0]_vars

\* Every executeCommand the panel called has answered.
AllResolved == \A i \in DOMAIN invocations : invocations[i].state = "exited"

\* C33 as stated: a send is accepted only when no response is loading,
\* streaming or being applied; a step that applies a directive of a
\* response finds every directive of the earlier responses resolved; and a
\* send that is not accepted changes nothing.
C33_SingleBatchInFlight ==
  [][/\ (panelSends' > panelSends) =>
          ~isAiLoading /\ ~panelIsStreaming /\ AllResolved
     /\ (effects' # effects \/ Len(invocations') > Len(invocations)) =>
          \A i \in DOMAIN invocations :
            invocations[i].resp < panelSends =>
              invocations[i].state = "exited"
     /\ (ignored' > ignored) =>
          UNCHANGED <<permissions, closure, isAiLoading, panelIsStreaming,
                      hpc, directives, cursor, effects, invocations,
                      panelSends>>]_vars

\* The terminals of the backend that are running.
Live == {id \in DOMAIN backend : backend[id] = "live"}

\* C38 as stated: no terminal of the backend that the component created is
\* running once the component is unmounted, and at most one is running at
\* any time.
C38_TerminalsKilled ==
  /\ ~mounted => Live = {}
  /\ Cardinality(Live) <= 1

====
